---------------------------- MODULE Spec2Model ----------------------------
(***************************************************************************)
(* A model of the RetractCheck ingest pipeline                             *)
(* (apps/api/src/ingest.ts and apps/api/scripts/csv-to-sql.ts).            *)
(*                                                                         *)
(* A text is a sequence of symbols.  A symbol is one character, written as *)
(* a one-character string, or a run of ordinary characters (no quote, no   *)
(* comma, no CR, no LF, no blank) that the bounded inputs keep together,   *)
(* such as the header cell "Record ID".                                    *)
(*                                                                         *)
(* Three specifications share the definitions:                             *)
(*   SpecDecode  the streaming decoder of streamInsertData, fed chunk by   *)
(*               chunk;                                                    *)
(*   SpecRows    the row step of the two pipeline variants (processRow of  *)
(*               the worker, write of the csv-to-sql script);              *)
(*   Spec        runIngest: up to MaxRuns runs interleaved at their awaits *)
(*               over one database and one key-value store.                *)
(***************************************************************************)
EXTENDS Integers, Sequences, FiniteSets, TLC

VARIABLES
    \* ---- SpecDecode: one call of streamInsertData
    text,       \* the whole decoded body, for reference
    field,      \* the value the body holds as one quoted field, or <<>>
    chunks,     \* the chunks reader.read() has still to deliver
    tail,       \* what decoder.decode(empty, {stream: false}) returns at the end
    cuts,       \* the positions of text after which a chunk ends
    dec,        \* the closure state of streamInsertData
    dpc,        \* "off" | "reading" | "done"
    \* ---- SpecRows: the same rows through the worker and through the script
    hdr,        \* the header row, as cells
    fed,        \* the data rows delivered so far, as cells
    wk,         \* the closure state of the worker's streamInsertData
    sc,         \* the closure state of the script's main
    rpc,        \* "off" | "rows" | "done"
    \* ---- Spec: runIngest
    clock,      \* the latest instant a run has read, in seconds
    activeTable,\* the key-value entry ingest:active_table
    metadata,   \* the key-value entry ingest:metadata
    tables,     \* the database: table name -> rows and indexes
    run,        \* the locals of each call of runIngest
    upstream,   \* the bodies the upstream may serve
    faults,     \* the database and key-value calls that may still fail
    \* ---- SpecFetch: one call of fetchWithRetry
    fetcher,    \* the locals of fetchWithRetry and what it has done so far
    \* ---- SpecRead: one call of fetchStatus beside one call of runIngest
    lookup,     \* the locals of fetchStatus
    \* ---- SpecHttp: one request to /v1/ingest
    http,       \* the request, and the status of the response once refused
    \* ---- SpecQuota: requests checked by enforceQuota
    quota,      \* the quota counters of the key-value store, and the answers
    \* ---- SpecRace: requests inside incrementCounter at the same time
    race,       \* one quota counter and the requests between its read and write
    \* ---- SpecFlow: the bulk writes of the load, step by step
    flow        \* the worker pipelines and the script, and their writes in flight

decodeVars == <<text, field, chunks, tail, cuts, dec, dpc>>
rowVars == <<hdr, fed, wk, sc, rpc>>
runVars == <<clock, activeTable, metadata, tables, run, upstream, faults>>
fetchVars == <<fetcher>>
flowVars == <<flow>>
readVars == <<lookup>>
httpVars == <<http>>
quotaVars == <<quota, race>>
webVars == <<readVars, httpVars, quotaVars>>
vars == <<decodeVars, rowVars, runVars, fetchVars, flowVars, webVars>>

\* the variables of a specification that is not running
DecodeOff ==
    /\ text = <<>> /\ field = <<>> /\ chunks = <<>> /\ tail = <<>> /\ cuts = {}
    /\ dec = <<>> /\ dpc = "off"
RowsOff ==
    /\ hdr = <<>> /\ fed = <<>> /\ wk = <<>> /\ sc = <<>> /\ rpc = "off"
RunsOff ==
    /\ clock = 0 /\ activeTable = <<>> /\ metadata = <<>> /\ tables = <<>>
    /\ run = <<>> /\ upstream = {} /\ faults = 0
FetchOff == fetcher = <<>>
FlowOff == flow = <<>>
ReadOff == lookup = <<>>
HttpOff == http = <<>>
QuotaOff == quota = <<>> /\ race = <<>>
WebOff == ReadOff /\ HttpOff /\ QuotaOff

-----------------------------------------------------------------------------
(* Characters *)

QUOTE == "\""
COMMA == ","
LF == "\n"
CR == "\r"
SPACE == " "
\* chunk[i + 1] past the end of the chunk, line[i + 1] past the end of the line
Undefined == ""
\* U+FFFD, what TextDecoder emits for a truncated final byte sequence
REPLACEMENT == "?"

\* String.prototype.trim strips blanks and line terminators
WhiteSpace == {SPACE, LF, CR, "\t"}

RECURSIVE TrimStart(_)
TrimStart(s) ==
    IF s # <<>> /\ Head(s) \in WhiteSpace THEN TrimStart(Tail(s)) ELSE s

RECURSIVE TrimEnd(_)
TrimEnd(s) ==
    IF s # <<>> /\ s[Len(s)] \in WhiteSpace
    THEN TrimEnd(SubSeq(s, 1, Len(s) - 1))
    ELSE s

Trim(s) == TrimEnd(TrimStart(s))

Range(s) == {s[i] : i \in DOMAIN s}

RECURSIVE Flatten(_)
Flatten(ss) == IF ss = <<>> THEN <<>> ELSE Head(ss) \o Flatten(Tail(ss))

-----------------------------------------------------------------------------
(* splitCsvLine *)

RECURSIVE SplitFrom(_, _, _, _, _)
SplitFrom(line, i, current, inQuotes, result) ==
    IF i > Len(line) THEN Append(result, current)
    ELSE
        LET char == line[i]
            next == IF i + 1 <= Len(line) THEN line[i + 1] ELSE Undefined
        IN  IF char = QUOTE
            THEN IF inQuotes /\ next = QUOTE
                 THEN SplitFrom(line, i + 2, Append(current, QUOTE), inQuotes, result)
                 ELSE SplitFrom(line, i + 1, current, ~inQuotes, result)
            ELSE IF char = COMMA /\ ~inQuotes
                 THEN SplitFrom(line, i + 1, <<>>, inQuotes, Append(result, current))
                 ELSE SplitFrom(line, i + 1, Append(current, char), inQuotes, result)

\* a plausible bug: the cells are not trimmed
SplitCsvLineUntrimmed(line) == SplitFrom(line, 1, <<>>, FALSE, <<>>)

\* a plausible bug: the doubled-quote rule is missing, every quote toggles
RECURSIVE SplitFromNoEscape(_, _, _, _, _)
SplitFromNoEscape(line, i, current, inQuotes, result) ==
    IF i > Len(line) THEN Append(result, current)
    ELSE IF line[i] = QUOTE
         THEN SplitFromNoEscape(line, i + 1, current, ~inQuotes, result)
         ELSE IF line[i] = COMMA /\ ~inQuotes
              THEN SplitFromNoEscape(line, i + 1, <<>>, inQuotes, Append(result, current))
              ELSE SplitFromNoEscape(line, i + 1, Append(current, line[i]), inQuotes, result)

SplitCsvLineNoEscape(line) ==
    LET result == SplitFromNoEscape(line, 1, <<>>, FALSE, <<>>)
    IN  [k \in DOMAIN result |-> Trim(result[k])]

SplitCsvLine(line) ==
    LET result == SplitFrom(line, 1, <<>>, FALSE, <<>>)
    IN  [k \in DOMAIN result |-> Trim(result[k])]

-----------------------------------------------------------------------------
(* Number(string): ECMAScript StringToNumber on the decimal literals the    *)
(* model's symbols can spell (sign, digits, one decimal point).  A value is *)
(* num / den with den a power of ten; anything else is NaN.  Letters are    *)
(* never part of a number here: the bounded inputs spell no exponent, no    *)
(* hexadecimal literal and no "Infinity".                                  *)

Digits == {"0", "1", "2", "3", "4", "5", "6", "7", "8", "9"}

DigitVal(d) ==
    CASE d = "0" -> 0 [] d = "1" -> 1 [] d = "2" -> 2 [] d = "3" -> 3
      [] d = "4" -> 4 [] d = "5" -> 5 [] d = "6" -> 6 [] d = "7" -> 7
      [] d = "8" -> 8 [] d = "9" -> 9

RECURSIVE DigitsValue(_)
DigitsValue(ds) ==
    IF ds = <<>> THEN 0
    ELSE 10 * DigitsValue(SubSeq(ds, 1, Len(ds) - 1)) + DigitVal(ds[Len(ds)])

RECURSIVE Pow10(_)
Pow10(k) == IF k = 0 THEN 1 ELSE 10 * Pow10(k - 1)

NaN == [finite |-> FALSE, num |-> 0, den |-> 1]

\* where the first decimal point of the literal is, or past its end
FirstDot(body) ==
    LET dots == {i \in DOMAIN body : body[i] = "."}
    IN  IF dots = {} THEN Len(body) + 1
        ELSE CHOOSE i \in dots : \A j \in dots : i <= j

\* Number(undefined) is NaN; a cell is a sequence of symbols
ToNumber(cell) ==
    LET Value(sign, intPart, fracPart) ==
            IF /\ Range(intPart) \subseteq Digits
               /\ Range(fracPart) \subseteq Digits
               /\ Len(intPart) + Len(fracPart) > 0
            THEN [finite |-> TRUE,
                  num |-> sign * (DigitsValue(intPart) * Pow10(Len(fracPart))
                                  + DigitsValue(fracPart)),
                  den |-> Pow10(Len(fracPart))]
            ELSE NaN
        Decimal(sign, body, dot) ==
            Value(sign, SubSeq(body, 1, dot - 1), SubSeq(body, dot + 1, Len(body)))
        Literal(s) ==
            IF s = <<>> THEN [finite |-> TRUE, num |-> 0, den |-> 1]
            ELSE IF Head(s) = "-" THEN Decimal(-1, Tail(s), FirstDot(Tail(s)))
            ELSE IF Head(s) = "+" THEN Decimal(1, Tail(s), FirstDot(Tail(s)))
            ELSE Decimal(1, s, FirstDot(s))
    IN  Literal(Trim(cell))

\* Number.isFinite(n)
IsFinite(n) == n.finite
\* n > 0 and n <= 0 on a finite number
IsPositive(n) == n.finite /\ n.num > 0
\* whether the number is an integer (what an INTEGER PRIMARY KEY column holds)
IsInteger(n) == n.finite /\ n.num % n.den = 0

-----------------------------------------------------------------------------
(* normaliseDoi on the DOI symbols of the bounded inputs.  DOI_CORE asks    *)
(* for "10.", four to nine digits, a slash and a suffix; the match is       *)
(* lowercased.  Every other cell of the inputs has no match.                *)

Null == <<"<null>">>

NormaliseDoi(cell) ==
    LET s == Trim(cell)
    IN  IF cell = <<>> THEN Null
        ELSE IF s = <<"10.1234/A">> THEN <<"10.1234/a">>
        ELSE IF s = <<"https://doi.org/10.1234/B">> THEN <<"10.1234/b">>
        ELSE Null

-----------------------------------------------------------------------------
(* validateRow and the closures of streamInsertData *)

RecordId == <<"Record ID">>
OriginalPaperDOI == <<"OriginalPaperDOI">>
RetractionDOI == <<"RetractionDOI">>

BATCH_SIZE == 250

\* record[name], with the empty string standing in where JavaScript
\* coalesces undefined (?.trim(), ?? '')
Has(record, name) == name \in DOMAIN record
Field(record, name) == IF Has(record, name) THEN record[name] ELSE <<>>

\* for (i < columns.length) record[columns[i]] = cells[i] ?? ''
\* (a repeated column name keeps the last assignment)
MakeRecord(columns, cells) ==
    [c \in Range(columns) |->
        LET last == CHOOSE i \in DOMAIN columns :
                        /\ columns[i] = c
                        /\ \A j \in DOMAIN columns : columns[j] = c => j <= i
        IN  IF last <= Len(cells) THEN cells[last] ELSE <<>>]

\* validateRow(record, rowNumber).valid
ValidateRow(record) ==
    /\ Has(record, RecordId)
    /\ Trim(record[RecordId]) # <<>>
    /\ IsFinite(ToNumber(record[RecordId]))
    /\ IsPositive(ToNumber(record[RecordId]))

StreamInit(now) ==
    [currentRow |-> <<>>, inQuotes |-> FALSE,
     hasColumns |-> FALSE, columns |-> <<>>,
     rowNumber |-> 0, processedRows |-> 0, skippedRows |-> 0,
     batch |-> <<>>,
     writes |-> <<>>,     \* the bulk INSERT OR REPLACE statements issued, in order
     handed |-> <<>>,     \* the non-blank rows processRow was called with
     now |-> now]         \* Math.floor(Date.now() / 1000)

\* a plausible bug: the batch is written and not emptied
FlushBatchKeeps(st) ==
    IF st.batch = <<>> THEN st
    ELSE [st EXCEPT !.writes = Append(@, st.batch)]

\* flushBatch
FlushBatch(st) ==
    IF st.batch = <<>> THEN st
    ELSE [st EXCEPT !.writes = Append(@, st.batch), !.batch = <<>>]

\* a plausible bug: a rejected row returns before it is counted
ProcessDataRowUncounted(st, row) ==
    LET cells == SplitCsvLine(row)
        record == MakeRecord(st.columns, cells)
        numbered == [st EXCEPT !.rowNumber = @ + 1]
    IN  IF ~ValidateRow(record)
        THEN numbered
        ELSE [numbered EXCEPT
                !.batch = Append(@,
                    [recordId |-> ToNumber(record[RecordId]),
                     doiOriginal |-> NormaliseDoi(Field(record, OriginalPaperDOI)),
                     doiRetraction |-> NormaliseDoi(Field(record, RetractionDOI)),
                     raw |-> record,
                     updatedAt |-> st.now]),
                !.processedRows = @ + 1]

\* a plausible bug: the batch is flushed when it exceeds BATCH_SIZE
ProcessDataRowLateFlush(st, row) ==
    LET cells == SplitCsvLine(row)
        record == MakeRecord(st.columns, cells)
        numbered == [st EXCEPT !.rowNumber = @ + 1]
        Flushed(pushed) ==
            IF Len(pushed.batch) > BATCH_SIZE THEN FlushBatch(pushed) ELSE pushed
    IN  IF ~ValidateRow(record)
        THEN [numbered EXCEPT !.skippedRows = @ + 1]
        ELSE Flushed([numbered EXCEPT
                !.batch = Append(@,
                    [recordId |-> ToNumber(record[RecordId]),
                     doiOriginal |-> NormaliseDoi(Field(record, OriginalPaperDOI)),
                     doiRetraction |-> NormaliseDoi(Field(record, RetractionDOI)),
                     raw |-> record,
                     updatedAt |-> st.now]),
                !.processedRows = @ + 1])

\* the part of processRow after the blank test and the header test
ProcessDataRow(st, row) ==
    LET cells == SplitCsvLine(row)
        record == MakeRecord(st.columns, cells)
        numbered == [st EXCEPT !.rowNumber = @ + 1]
    IN  IF ~ValidateRow(record)
        THEN [numbered EXCEPT !.skippedRows = @ + 1]
        ELSE LET pushed ==
                     [numbered EXCEPT
                        !.batch = Append(@,
                            [recordId |-> ToNumber(record[RecordId]),
                             doiOriginal |-> NormaliseDoi(Field(record, OriginalPaperDOI)),
                             doiRetraction |-> NormaliseDoi(Field(record, RetractionDOI)),
                             raw |-> record,
                             updatedAt |-> st.now]),
                        !.processedRows = @ + 1]
             IN  IF Len(pushed.batch) >= BATCH_SIZE THEN FlushBatch(pushed) ELSE pushed

\* processRow
ProcessRow(st, row) ==
    IF row = <<>> \/ Trim(row) = <<>> THEN st
    ELSE LET seen == [st EXCEPT !.handed = Append(@, row)]
         IN  IF ~st.hasColumns
             THEN [seen EXCEPT !.hasColumns = TRUE, !.columns = SplitCsvLine(row)]
             ELSE ProcessDataRow(seen, row)

\* the for loop of processChunk, from index i
RECURSIVE ProcessChunkFrom(_, _, _)
ProcessChunkFrom(st, chunk, i) ==
    IF i > Len(chunk) THEN st
    ELSE
        LET char == chunk[i]
            next == IF i + 1 <= Len(chunk) THEN chunk[i + 1] ELSE Undefined
        IN  IF char = QUOTE
            THEN IF st.inQuotes /\ next = QUOTE
                 THEN ProcessChunkFrom(
                          [st EXCEPT !.currentRow = @ \o <<QUOTE, QUOTE>>], chunk, i + 2)
                 ELSE ProcessChunkFrom(
                          [st EXCEPT !.inQuotes = ~@, !.currentRow = Append(@, QUOTE)],
                          chunk, i + 1)
            ELSE IF ~st.inQuotes /\ char \in {LF, CR}
                 THEN ProcessChunkFrom(
                          [ProcessRow(st, st.currentRow) EXCEPT !.currentRow = <<>>],
                          chunk,
                          IF char = CR /\ next = LF THEN i + 2 ELSE i + 1)
                 ELSE ProcessChunkFrom(
                          [st EXCEPT !.currentRow = Append(@, char)], chunk, i + 1)

\* a plausible bug: the quote flag a local of processChunk, reset per chunk
ProcessChunkLocalQuotes(st, chunk, finalChunk) ==
    LET scanned == ProcessChunkFrom([st EXCEPT !.inQuotes = FALSE], chunk, 1)
    IN  IF finalChunk /\ scanned.currentRow # <<>>
        THEN [ProcessRow(scanned, scanned.currentRow) EXCEPT !.currentRow = <<>>]
        ELSE scanned

\* a plausible bug: the final row is processed and left in the buffer
ProcessChunkKeepsRow(st, chunk, finalChunk) ==
    LET scanned == ProcessChunkFrom(st, chunk, 1)
    IN  IF finalChunk /\ scanned.currentRow # <<>>
        THEN ProcessRow(scanned, scanned.currentRow)
        ELSE scanned

\* processChunk(chunk, finalChunk)
ProcessChunk(st, chunk, finalChunk) ==
    LET scanned == ProcessChunkFrom(st, chunk, 1)
    IN  IF finalChunk /\ scanned.currentRow # <<>>
        THEN [ProcessRow(scanned, scanned.currentRow) EXCEPT !.currentRow = <<>>]
        ELSE scanned

\* what streamInsertData does once reader.read() reports done
EndOfBody(st, remaining) ==
    FlushBatch(
        IF remaining # <<>> THEN ProcessChunk(st, remaining, TRUE)
        ELSE IF st.currentRow # <<>> THEN ProcessChunk(st, <<>>, TRUE)
        ELSE st)

\* streamInsertData on a body delivered as the given chunks
RECURSIVE ReadAll(_, _)
ReadAll(st, cs) ==
    IF cs = <<>> THEN st ELSE ReadAll(ProcessChunk(st, Head(cs), FALSE), Tail(cs))

StreamInsertData(cs, remaining, now) ==
    EndOfBody(ReadAll(StreamInit(now), cs), remaining)

-----------------------------------------------------------------------------
(* SpecDecode: streamInsertData reading one body chunk by chunk *)

MaxLen == 4      \* longest free-form body, in symbols
MaxField == 3    \* longest value of a quoted field, in symbols
MaxCuts == 2     \* most chunk boundaries inside one body

DecodeAlphabet == {"a", COMMA, QUOTE, LF, CR}

SeqsUpTo(S, n) == UNION {[1..k -> S] : k \in 0..n}

\* a field value written as a quoted CSV field: quotes doubled, quotes around
RECURSIVE Escape(_)
Escape(v) ==
    IF v = <<>> THEN <<>>
    ELSE (IF Head(v) = QUOTE THEN <<QUOTE, QUOTE>> ELSE <<Head(v)>>) \o Escape(Tail(v))

QuotedField(v) == <<QUOTE>> \o Escape(v) \o <<QUOTE>>

FieldValues == SeqsUpTo(DecodeAlphabet, MaxField) \ {<<>>}

\* the body that holds v as its single quoted field, with and without the
\* newline that ends the row
OneField(v) == {QuotedField(v), QuotedField(v) \o <<LF>>}

\* the bodies: every text up to MaxLen
Texts == SeqsUpTo(DecodeAlphabet, MaxLen)

\* the chunks of t when a chunk ends after each position of cs, from position from
RECURSIVE SplitAt(_, _, _)
SplitAt(t, cs, from) ==
    IF from >= Len(t) THEN <<>>
    ELSE LET later == {c \in cs \cup {Len(t)} : c > from}
             e == CHOOSE c \in later : \A d \in later : c <= d
         IN  <<SubSeq(t, from + 1, e)>> \o SplitAt(t, cs, e)

InitDecode ==
    /\ \/ field = <<>> /\ text \in Texts
       \/ field \in FieldValues /\ text \in OneField(field)
    /\ cuts \in {c \in SUBSET (1..(Len(text) - 1)) : Cardinality(c) <= MaxCuts}
    /\ chunks = SplitAt(text, cuts, 0)
    /\ tail \in {<<>>, <<REPLACEMENT>>}
    /\ dec = StreamInit(0)
    /\ dpc = "reading"
    /\ RowsOff /\ RunsOff /\ FetchOff /\ FlowOff /\ WebOff

\* one turn of the read loop: reader.read() delivers a chunk
ReadChunk ==
    /\ dpc = "reading"
    /\ chunks # <<>>
    /\ dec' = ProcessChunk(dec, Head(chunks), FALSE)
    /\ chunks' = Tail(chunks)
    /\ UNCHANGED <<text, field, tail, cuts, dpc, rowVars, runVars, fetchVars, flowVars, webVars>>

\* reader.read() reports done: the decoder is flushed, then the batch
EndOfStream ==
    /\ dpc = "reading"
    /\ chunks = <<>>
    /\ dec' = EndOfBody(dec, tail)
    /\ dpc' = "done"
    /\ UNCHANGED <<text, field, chunks, tail, cuts, rowVars, runVars, fetchVars, flowVars, webVars>>

NextDecode == ReadChunk \/ EndOfStream

SpecDecode == InitDecode /\ [][NextDecode]_vars

-----------------------------------------------------------------------------
(* The csv-to-sql script: the write and final callbacks of main *)

DEFAULT_BATCH_SIZE == 25

\* sqlString: NULL for null and for the empty string, else a quoted literal
\* with every single quote doubled
RECURSIVE SqlQuote(_)
SqlQuote(v) ==
    IF v = <<>> THEN <<>>
    ELSE (IF Head(v) = "'" THEN <<"'", "'">> ELSE <<Head(v)>>) \o SqlQuote(Tail(v))

SqlString(value) ==
    IF value = Null \/ value = <<>> THEN <<"NULL">>
    ELSE <<"'">> \o SqlQuote(value) \o <<"'">>

ScriptInit(updatedAt) ==
    [processed |-> 0, skipped |-> 0, batch |-> <<>>,
     out |-> <<>>,            \* the INSERT statements written, in order
     updatedAt |-> updatedAt]

\* flush: one INSERT OR REPLACE for the pending values
ScriptFlush(s) ==
    IF s.batch = <<>> THEN s
    ELSE [s EXCEPT !.out = Append(@, s.batch), !.batch = <<>>]

\* write(record): record is what csv-parse made of one row under columns: true
ScriptWrite(s, record) ==
    LET idValue == IF Has(record, RecordId) THEN ToNumber(record[RecordId]) ELSE NaN
    IN  IF ~IsFinite(idValue)
        THEN [s EXCEPT !.skipped = @ + 1]
        ELSE LET pushed ==
                     [s EXCEPT
                        !.batch = Append(@,
                            [recordId |-> idValue,
                             doiOriginal |->
                                 SqlString(NormaliseDoi(Field(record, OriginalPaperDOI))),
                             doiRetraction |->
                                 SqlString(NormaliseDoi(Field(record, RetractionDOI))),
                             raw |-> record,
                             updatedAt |-> s.updatedAt]),
                        !.processed = @ + 1]
             IN  IF Len(pushed.batch) >= DEFAULT_BATCH_SIZE
                 THEN ScriptFlush(pushed)
                 ELSE pushed

-----------------------------------------------------------------------------
(* SpecRows: data rows delivered one by one to both pipeline variants *)

MaxRows == 2     \* most data rows of one body
MaxIdLen == 2    \* longest Record ID cell, in symbols

IdAlphabet == {"1", "0", ".", "-", SPACE, "a"}
IdCells == SeqsUpTo(IdAlphabet, MaxIdLen)
DoiCells == {<<>>, <<"10.1234/A">>, <<"x">>}

\* with a Record ID column, and without one
Headers == {<<RecordId, OriginalPaperDOI>>, <<RetractionDOI, OriginalPaperDOI>>}

\* a row of cells as a line of text
RECURSIVE JoinCells(_)
JoinCells(cells) ==
    IF cells = <<>> THEN <<>>
    ELSE IF Len(cells) = 1 THEN cells[1]
    ELSE cells[1] \o <<COMMA>> \o JoinCells(Tail(cells))

\* the record csv-parse hands to write for a row with as many cells as the header
ParsedRecord(columns, cells) == [c \in Range(columns) |->
    cells[CHOOSE i \in DOMAIN columns : columns[i] = c]]

InitRows ==
    /\ hdr \in Headers
    /\ fed = <<>>
    /\ wk = ProcessRow(StreamInit(0), JoinCells(hdr))
    /\ sc = ScriptInit(0)
    /\ rpc = "rows"
    /\ DecodeOff /\ RunsOff /\ FetchOff /\ FlowOff /\ WebOff

\* the next data row reaches processRow of the worker and write of the script
FeedRow ==
    /\ rpc = "rows"
    /\ Len(fed) < MaxRows
    /\ \E id \in IdCells, doi \in DoiCells :
        LET cells == <<id, doi>>
        IN  /\ Trim(JoinCells(cells)) # <<>>     \* both variants drop an empty line
            /\ fed' = Append(fed, cells)
            /\ wk' = ProcessRow(wk, JoinCells(cells))
            /\ sc' = ScriptWrite(sc, ParsedRecord(hdr, cells))
    /\ UNCHANGED <<hdr, rpc, decodeVars, runVars, fetchVars, flowVars, webVars>>

\* end of input: the last flush of each variant
FinishRows ==
    /\ rpc = "rows"
    /\ wk' = EndOfBody(wk, <<>>)
    /\ sc' = ScriptFlush(sc)
    /\ rpc' = "done"
    /\ UNCHANGED <<hdr, fed, decodeVars, runVars, fetchVars, flowVars, webVars>>

NextRows == FeedRow \/ FinishRows

SpecRows == InitRows /\ [][NextRows]_vars

(* SpecBatch: the same rows arriving when the batch is about to fill *)

\* the decimal digits of a positive integer
RECURSIVE IdText(_)
IdText(n) ==
    (IF n < 10 THEN <<>> ELSE IdText(n \div 10))
    \o <<CHOOSE d \in Digits : DigitVal(d) = n % 10>>

\* the i-th of the rows already processed: Record ID i and a DOI
EarlierRow(i) == <<IdText(i), <<"10.1234/A">>>>

\* the worker after the header alone, and what one row adds to its batch
WorkerHeaded(columns) == ProcessRow(StreamInit(0), JoinCells(columns))

\* the worker after the header and the rows 1..p, p < BATCH_SIZE: p records
\* pending, nothing written yet
WorkerAfter(columns, p) ==
    [WorkerHeaded(columns) EXCEPT
        !.rowNumber = p,
        !.processedRows = p,
        !.batch = [i \in 1..p |->
                      ProcessRow(WorkerHeaded(columns), JoinCells(EarlierRow(i))).batch[1]],
        !.handed = [i \in 1..(p + 1) |->
                      IF i = 1 THEN JoinCells(columns)
                      ELSE JoinCells(EarlierRow(i - 1))]]

ScriptRecord(columns, i) ==
    ScriptWrite(ScriptInit(0), ParsedRecord(columns, EarlierRow(i))).batch[1]

\* the script after the rows 1..p: a statement for every full batch, the
\* rest pending
ScriptAfter(columns, p) ==
    [ScriptInit(0) EXCEPT
        !.processed = p,
        !.out = [k \in 1..(p \div DEFAULT_BATCH_SIZE) |->
                    [j \in 1..DEFAULT_BATCH_SIZE |->
                        ScriptRecord(columns, (k - 1) * DEFAULT_BATCH_SIZE + j)]],
        !.batch = [j \in 1..(p % DEFAULT_BATCH_SIZE) |->
                    ScriptRecord(columns, p - (p % DEFAULT_BATCH_SIZE) + j)]]

\* the numbers of rows processed so far: the batch one or two short of full
EarlierRows == {BATCH_SIZE - 2, BATCH_SIZE - 1}

InitBatch ==
    /\ hdr = <<RecordId, OriginalPaperDOI>>
    /\ fed = <<>>
    /\ rpc = "rows"
    /\ \E p \in EarlierRows :
         /\ wk = WorkerAfter(hdr, p)
         /\ sc = ScriptAfter(hdr, p)
    /\ DecodeOff /\ RunsOff /\ FetchOff /\ FlowOff /\ WebOff

SpecBatch == InitBatch /\ [][NextRows]_vars

(* SpecStamp: the rows of SpecRows while the clock advances during the load *)

MaxLoadSecs == 2   \* seconds that pass between the first row and the last

\* a second passes between two awaits of the load: the next Date.now() of
\* processRow reads a later second; the script took its updatedAt in parseArgs
PassSecond ==
    /\ rpc = "rows"
    /\ wk.now < MaxLoadSecs
    /\ wk' = [wk EXCEPT !.now = @ + 1]
    /\ UNCHANGED <<hdr, fed, sc, rpc, decodeVars, runVars, fetchVars, flowVars, webVars>>

NextStamp == FeedRow \/ FinishRows \/ PassSecond

SpecStamp == InitRows /\ [][NextStamp]_vars

(* SpecRaw: rows of the worker under headers with further columns, with a   *)
(* repeated column name, and with fewer or more cells than the header        *)

MaxRawRows == 2    \* most data rows of one body
MaxRawCells == 3   \* most cells of one data row

Journal == <<"Journal">>
RawHeaders ==
    {<<RecordId, Journal>>, <<Journal, RecordId, OriginalPaperDOI>>,
     <<RecordId, Journal, Journal>>}
RawCellValues == {<<>>, <<"1">>, <<"x">>, <<"y">>}
RawRows == UNION {[1..k -> RawCellValues] : k \in 1..MaxRawCells}

InitRaw ==
    /\ hdr \in RawHeaders
    /\ fed = <<>>
    /\ wk = ProcessRow(StreamInit(0), JoinCells(hdr))
    /\ sc = ScriptInit(0)
    /\ rpc = "rows"
    /\ DecodeOff /\ RunsOff /\ FetchOff /\ FlowOff /\ WebOff

\* the next data row reaches processRow of the worker
FeedRawRow ==
    /\ rpc = "rows"
    /\ Len(fed) < MaxRawRows
    /\ \E cells \in RawRows :
        /\ Trim(JoinCells(cells)) # <<>>
        /\ fed' = Append(fed, cells)
        /\ wk' = ProcessRow(wk, JoinCells(cells))
    /\ UNCHANGED <<hdr, sc, rpc, decodeVars, runVars, fetchVars, flowVars, webVars>>

\* end of input: the last flushBatch
FinishRaw ==
    /\ rpc = "rows"
    /\ wk' = EndOfBody(wk, <<>>)
    /\ rpc' = "done"
    /\ UNCHANGED <<hdr, fed, sc, decodeVars, runVars, fetchVars, flowVars, webVars>>

NextRaw == FeedRawRow \/ FinishRaw

SpecRaw == InitRaw /\ [][NextRaw]_vars

-----------------------------------------------------------------------------
(* Table names, the clock and the database *)

\* A table name is its text before the digits and the instant, in seconds,
\* that its 14 digits spell in UTC (-1: no digits).
Snapshot(t) == [pre |-> "entries_", ts |-> t]
\* what the key-value store returns for a key that is not set
NoTable == [pre |-> "", ts |-> -1]
LegacyTable == [pre |-> "entries", ts |-> -1]
BackupTable == [pre |-> "entries_backup", ts |-> -1]

\* /^entries_\d{14}$/.test(name)
IsSnapshotName(n) == n.pre = "entries_" /\ n.ts >= 0
\* name LIKE 'entries_%'
LikeEntries(n) == n.pre \in {"entries_", "entries_backup"}

\* generateTableName: the UTC instant, cut to whole seconds
GenerateTableName(now) == Snapshot(now)

\* the offset of the runtime's local time from UTC (a Worker runs in UTC)
LocalOffsetSecs == 0
\* parseTableTimestamp: the digits read as local time; -1 stands for null
ParseTableTimestamp(n) == IF IsSnapshotName(n) THEN n.ts - LocalOffsetSecs ELSE -1

TABLE_RETENTION_DAYS == 7
SecondsPerDay == 86400
\* cutoffDate: now with setDate(getDate() - TABLE_RETENTION_DAYS)
CutoffDate(now) == now - TABLE_RETENTION_DAYS * SecondsPerDay

MaxSecs == 0     \* the seconds a run may start after the first instant
\* the first instant a run can read, and the instants a run can read
T0 == TABLE_RETENTION_DAYS * SecondsPerDay + 1
Times ==
    {T0 + d : d \in 0..MaxSecs}
    \cup {T0 + TABLE_RETENTION_DAYS * SecondsPerDay + MaxSecs + 1}

\* CREATE TABLE leaves a table with no row and no index; by is the call that
\* created it (0: a call before those of the behaviour), kept for the
\* properties only
NewTable(r) == [rows |-> <<>>, idx |-> {}, by |-> r]

Exists(db, n) == n \in DOMAIN db
WithTable(db, n, t) == [m \in DOMAIN db \cup {n} |-> IF m = n THEN t ELSE db[m]]
WithoutTable(db, n) == [m \in DOMAIN db \ {n} |-> db[m]]

\* a plausible bug: INSERT OR IGNORE, the first record of an id is kept
RECURSIVE UpsertKeepsFirst(_, _)
UpsertKeepsFirst(rows, batch) ==
    IF batch = <<>> THEN rows
    ELSE LET e == Head(batch)
             k == e.recordId.num \div e.recordId.den
             stored == [orig |-> e.doiOriginal, retr |-> e.doiRetraction,
                        raw |-> e.raw, updatedAt |-> e.updatedAt]
         IN  UpsertKeepsFirst([id \in DOMAIN rows \cup {k} |->
                                  IF id \in DOMAIN rows THEN rows[id] ELSE stored],
                              Tail(batch))

\* INSERT OR REPLACE of the records of one bulk write, in order
RECURSIVE Upsert(_, _)
Upsert(rows, batch) ==
    IF batch = <<>> THEN rows
    ELSE LET e == Head(batch)
             k == e.recordId.num \div e.recordId.den
             stored == [orig |-> e.doiOriginal, retr |-> e.doiRetraction,
                        raw |-> e.raw, updatedAt |-> e.updatedAt]
         IN  Upsert([id \in DOMAIN rows \cup {k} |-> IF id = k THEN stored ELSE rows[id]],
                    Tail(batch))

\* record_id INTEGER PRIMARY KEY: a bound value that is no integer is refused
Storable(batch) == \A i \in DOMAIN batch : IsInteger(batch[i].recordId)

-----------------------------------------------------------------------------
(* The CSV bodies the upstream serves to a run *)

MaxGood == 4     \* most rows with a Record ID and a DOI in a served body
MaxNoDoi == 2    \* most rows with a Record ID and no DOI in a served body
MaxBad == 1      \* most rows with a blank Record ID in a served body

DigitSym == <<"1", "2", "3", "4", "5", "6", "7", "8", "9">>
HeaderLine == <<"Record ID", COMMA, "OriginalPaperDOI", COMMA, "RetractionDOI", LF>>
GoodLine(i) == <<DigitSym[i], COMMA, "10.1234/A", COMMA, LF>>
NoDoiLine(i) == <<DigitSym[i], COMMA, COMMA, LF>>
BadLine == <<COMMA, "10.1234/A", COMMA, LF>>

RECURSIVE GoodLines(_, _)
GoodLines(from, k) == IF k = 0 THEN <<>> ELSE GoodLine(from) \o GoodLines(from + 1, k - 1)
RECURSIVE NoDoiLines(_, _)
NoDoiLines(from, k) ==
    IF k = 0 THEN <<>> ELSE NoDoiLine(from) \o NoDoiLines(from + 1, k - 1)
RECURSIVE BadLines(_)
BadLines(k) == IF k = 0 THEN <<>> ELSE BadLine \o BadLines(k - 1)

\* header, g rows with a DOI (ids 1..g), n rows without (ids g+1..g+n), b
\* rows with a blank Record ID
Body(g, n, b) == HeaderLine \o GoodLines(1, g) \o NoDoiLines(g + 1, n) \o BadLines(b)

\* the empty body, and every Body within the bounds
Bodies ==
    {<<>>} \cup {Body(g, n, b) : g \in 0..MaxGood, n \in 0..MaxNoDoi, b \in 0..MaxBad}

\* the rows of a snapshot an earlier run loaded from Body(p, 0, 0)
LoadedRows(p, now) ==
    Upsert(<<>>, Flatten(StreamInsertData(<<Body(p, 0, 0)>>, <<>>, now).writes))

-----------------------------------------------------------------------------
(* The health gate *)

\* SELECT COUNT(*) FROM the table
CountRows(db, n) == Cardinality(DOMAIN db[n].rows)

\* a plausible bug: a new count of exactly 80% of the previous one fails too
RowCountDroppedInclusive(rowCount, previousRowCount) ==
    previousRowCount > 0 /\ 5 * rowCount <= 4 * previousRowCount

\* previousRowCount > 0 && rowCount < previousRowCount * 0.8, on integers
RowCountDropped(rowCount, previousRowCount) ==
    previousRowCount > 0 /\ 5 * rowCount < 4 * previousRowCount

\* a plausible bug: a snapshot with exactly half of its rows without DOIs passes
HalfNulls(bothNullCount, rowCount) == 2 * bothNullCount <= rowCount

\* bothNullCount < rowCount * 0.5, on integers
FewNulls(bothNullCount, rowCount) == 2 * bothNullCount < rowCount

HealthQueries == 1..5
NoCount == -1    \* previousRowCount: null

\* a statement with an interpolated table name, as the database receives it
Stmt(stmt, id) == [stmt |-> stmt, id |-> id]

\* a plausible bug: check 2 counts whatever table the pointer names
PreviousCheckedAnyName(previousTableName) == previousTableName # NoTable

\* previousTableName && /^entries_\d{14}$/.test(previousTableName)
PreviousChecked(previousTableName) ==
    previousTableName # NoTable /\ IsSnapshotName(previousTableName)

\* the statements of runHealthChecks that interpolate a table name: checks
\* 1, 3 and 4 on the new table, check 2 on the previous one; check 5 binds it
HealthStatements(newTableName, previousTableName) ==
    {Stmt("SELECT", newTableName)}
    \cup (IF PreviousChecked(previousTableName)
          THEN {Stmt("SELECT", previousTableName)} ELSE {})

\* the five checks of runHealthChecks, where the queries in failing throw; a
\* query on a table that does not exist throws as well. pushed[k] holds what
\* check k pushes onto errors.
HealthChecks(db, newTableName, previousTableName, failing) ==
    LET newExists == Exists(db, newTableName)
        rows == db[newTableName].rows
        counted == newExists /\ 1 \notin failing
        rowCount == IF counted THEN CountRows(db, newTableName) ELSE 0
        e1 == IF ~counted THEN <<"Failed to count rows">>
              ELSE IF rowCount = 0 THEN <<"New table has 0 rows">>
              ELSE <<>>
        prevCounted ==
            /\ PreviousChecked(previousTableName)
            /\ Exists(db, previousTableName)
            /\ 2 \notin failing
        previousRowCount ==
            IF prevCounted THEN CountRows(db, previousTableName) ELSE NoCount
        e2 == IF prevCounted /\ RowCountDropped(rowCount, previousRowCount)
              THEN <<"Row count dropped significantly">>
              ELSE <<>>
        sampled == newExists /\ 3 \notin failing
        sampleLookupPassed == sampled /\ \E id \in DOMAIN rows : rows[id].orig # Null
        e3 == IF ~sampled THEN <<"Sample lookup failed">>
              ELSE IF ~sampleLookupPassed THEN <<"Sample DOI lookup returned no results">>
              ELSE <<>>
        nullCounted == newExists /\ 4 \notin failing
        bothNullCount ==
            Cardinality({id \in DOMAIN rows : rows[id].orig = Null /\ rows[id].retr = Null})
        nullCheckPassed == nullCounted /\ (rowCount = 0 \/ FewNulls(bothNullCount, rowCount))
        e4 == IF ~nullCounted THEN <<"NULL check failed">>
              ELSE IF ~nullCheckPassed THEN <<"Too many rows with both DOIs null">>
              ELSE <<>>
        indexListed == 5 \notin failing
        indexesCreated ==
            indexListed /\ newExists /\ Cardinality(db[newTableName].idx) >= 2
        e5 == IF ~indexListed THEN <<"Index check failed">>
              ELSE IF ~indexesCreated THEN <<"Required indexes not found">>
              ELSE <<>>
    IN  [rowCount |-> rowCount,
         previousRowCount |-> previousRowCount,
         sampleLookupPassed |-> sampleLookupPassed,
         nullCheckPassed |-> nullCheckPassed,
         indexesCreated |-> indexesCreated,
         pushed |-> <<e1, e2, e3, e4, e5>>]

\* the checks whose query throws: one of failing, or one on a table that does
\* not exist; check 2 issues its query only for a checked previous name
Thrown(db, newTableName, previousTableName, failing) ==
    {k \in {1, 3, 4} : k \in failing \/ ~Exists(db, newTableName)}
    \cup {k \in {2} : /\ PreviousChecked(previousTableName)
                      /\ (k \in failing \/ ~Exists(db, previousTableName))}
    \cup {k \in {5} : k \in failing}

\* a plausible bug: the checks after the first failed one are not run
RECURSIVE FirstFailure(_)
FirstFailure(pushed) ==
    IF pushed = <<>> THEN <<>>
    ELSE IF Head(pushed) # <<>> THEN Head(pushed)
    ELSE FirstFailure(Tail(pushed))

\* the result of the mutated gate
ShortCircuitResult(c) ==
    [passed |-> FirstFailure(c.pushed) = <<>> /\ c.rowCount > 0,
     rowCount |-> c.rowCount,
     previousRowCount |-> c.previousRowCount,
     sampleLookupPassed |-> c.sampleLookupPassed,
     nullCheckPassed |-> c.nullCheckPassed,
     indexesCreated |-> c.indexesCreated,
     errors |-> FirstFailure(c.pushed)]

RunHealthChecksShortCircuit(db, newTableName, previousTableName, failing) ==
    ShortCircuitResult(HealthChecks(db, newTableName, previousTableName, failing))

\* a plausible bug: the gate leaves out what the index check pushed
HealthCheckResultNoIndexCheck(c) ==
    [passed |-> Flatten(SubSeq(c.pushed, 1, 4)) = <<>> /\ c.rowCount > 0,
     rowCount |-> c.rowCount,
     previousRowCount |-> c.previousRowCount,
     sampleLookupPassed |-> c.sampleLookupPassed,
     nullCheckPassed |-> c.nullCheckPassed,
     indexesCreated |-> c.indexesCreated,
     errors |-> Flatten(SubSeq(c.pushed, 1, 4))]

\* passed = errors.length === 0 && rowCount > 0, and the returned record
HealthCheckResult(c) ==
    [passed |-> Flatten(c.pushed) = <<>> /\ c.rowCount > 0,
     rowCount |-> c.rowCount,
     previousRowCount |-> c.previousRowCount,
     sampleLookupPassed |-> c.sampleLookupPassed,
     nullCheckPassed |-> c.nullCheckPassed,
     indexesCreated |-> c.indexesCreated,
     errors |-> Flatten(c.pushed)]

\* runHealthChecks: every check runs, errors collects what each pushed
RunHealthChecks(db, newTableName, previousTableName, failing) ==
    HealthCheckResult(HealthChecks(db, newTableName, previousTableName, failing))

\* healthChecks before runHealthChecks has returned
NoHealth ==
    [passed |-> FALSE, rowCount |-> 0, previousRowCount |-> NoCount,
     sampleLookupPassed |-> FALSE, nullCheckPassed |-> FALSE,
     indexesCreated |-> FALSE, errors |-> <<>>]

-----------------------------------------------------------------------------
(* fetchWithRetry *)

MAX_RETRIES == 3
INITIAL_RETRY_DELAY_MS == 1000
RETRY_BACKOFF_MULTIPLIER == 2

\* what one await fetch(url, options) gives: a response, or a rejection
Response(status, hasBody, retryAfter) ==
    [kind |-> "response", status |-> status, body |-> hasBody, retryAfter |-> retryAfter]
NetworkFailure == [kind |-> "thrown", status |-> 0, body |-> FALSE, retryAfter |-> Null]
NoResponse == [kind |-> "none", status |-> 0, body |-> FALSE, retryAfter |-> Null]

\* response.ok
Ok(response) == response.status >= 200 /\ response.status <= 299

\* response.status >= 500 || response.status === 429
Retryable(o) == o.kind = "response" /\ (o.status >= 500 \/ o.status = 429)

\* the digits a string starts with
RECURSIVE LeadingDigits(_)
LeadingDigits(s) ==
    IF s # <<>> /\ Head(s) \in Digits THEN <<Head(s)>> \o LeadingDigits(Tail(s)) ELSE <<>>

\* parseInt(string, 10): blanks, a sign, then the digits up to the first
\* symbol that is none
ParseInt(string) ==
    LET Signed(sign, ds) ==
            IF ds = <<>> THEN NaN
            ELSE [finite |-> TRUE, num |-> sign * DigitsValue(ds), den |-> 1]
        Parse(s) ==
            IF s # <<>> /\ Head(s) = "-" THEN Signed(-1, LeadingDigits(Tail(s)))
            ELSE IF s # <<>> /\ Head(s) = "+" THEN Signed(1, LeadingDigits(Tail(s)))
            ELSE Signed(1, LeadingDigits(s))
    IN  Parse(TrimStart(string))

\* if (retryAfter) delay = parseInt(retryAfter, 10) * 1000 || delay
RetryDelay(delay, retryAfter) ==
    LET Or(n) == IF n.finite /\ n.num # 0 THEN n.num * 1000 ELSE delay
    IN  IF retryAfter = Null \/ retryAfter = <<>> THEN delay
        ELSE Or(ParseInt(retryAfter))

\* the message of what the catch block receives
ErrorOf(o) ==
    IF o.kind = "thrown" THEN <<"fetch failed">>
    ELSE <<"Server error", ToString(o.status)>>

ExhaustedError(lastError) ==
    <<"CSV fetch failed after", ToString(MAX_RETRIES), "attempts">> \o lastError

\* the locals at the first evaluation of the loop's test, and the record of
\* what the call has done: the fetch calls, what they gave, the waits
InitFetcher ==
    [pc |-> "attempt", attempt |-> 1, delay |-> INITIAL_RETRY_DELAY_MS,
     lastError |-> Null, calls |-> 0, served |-> <<>>, waits |-> <<>>,
     result |-> NoResponse, error |-> <<>>]

\* a plausible bug: every response that is not ok is retried
AttemptStepRetryNotOk(f, o) ==
    IF o.kind = "response" /\ Ok(o)
    THEN [f EXCEPT !.pc = "returned", !.calls = @ + 1, !.served = Append(@, o),
                   !.result = o]
    ELSE IF f.attempt < MAX_RETRIES
    THEN [f EXCEPT !.pc = "wait", !.calls = @ + 1, !.served = Append(@, o),
                   !.lastError = ErrorOf(o)]
    ELSE [f EXCEPT !.pc = "raised", !.calls = @ + 1, !.served = Append(@, o),
                   !.lastError = ErrorOf(o), !.attempt = @ + 1,
                   !.error = ExhaustedError(ErrorOf(o))]

\* one pass of the loop body up to its await or its exit: the fetch gives o
AttemptStep(f, o) ==
    IF o.kind = "response" /\ ~Retryable(o)
    THEN [f EXCEPT !.pc = "returned", !.calls = @ + 1, !.served = Append(@, o),
                   !.result = o]
    ELSE IF f.attempt < MAX_RETRIES
    THEN [f EXCEPT !.pc = "wait", !.calls = @ + 1, !.served = Append(@, o),
                   !.delay = IF Retryable(o) THEN RetryDelay(@, o.retryAfter) ELSE @,
                   !.lastError = ErrorOf(o)]
    ELSE [f EXCEPT !.pc = "raised", !.calls = @ + 1, !.served = Append(@, o),
                   !.delay = IF Retryable(o) THEN RetryDelay(@, o.retryAfter) ELSE @,
                   !.lastError = ErrorOf(o), !.attempt = @ + 1,
                   !.error = ExhaustedError(ErrorOf(o))]

\* the timer of the catch block fires: delay *= multiplier, attempt++
BackoffStep(f) ==
    [f EXCEPT !.pc = "attempt", !.waits = Append(@, f.delay),
              !.delay = @ * RETRY_BACKOFF_MULTIPLIER, !.attempt = @ + 1]

\* fetchWithRetry run to its end, on what the successive fetch calls give
RECURSIVE RunFetch(_, _)
RunFetch(f, outcomes) ==
    IF f.pc \in {"returned", "raised"} THEN f
    ELSE IF f.pc = "wait" THEN RunFetch(BackoffStep(f), outcomes)
    ELSE RunFetch(AttemptStep(f, Head(outcomes)), Tail(outcomes))

FetchWithRetry(outcomes) == RunFetch(InitFetcher, outcomes)

(* SpecFetch: one call of fetchWithRetry, step by step *)

Statuses == {200, 404, 429, 503}
RetryAfterHeaders == {Null, <<"3">>, <<"0">>, <<"a">>}
Outcomes ==
    {NetworkFailure}
    \cup {Response(st, b, h) : st \in Statuses, b \in BOOLEAN, h \in RetryAfterHeaders}

InitFetch ==
    /\ fetcher = InitFetcher
    /\ DecodeOff /\ RowsOff /\ RunsOff /\ FlowOff /\ WebOff

\* await fetch(url, options) settles
FetchAttempt ==
    /\ fetcher.pc = "attempt"
    /\ \E o \in Outcomes : fetcher' = AttemptStep(fetcher, o)
    /\ UNCHANGED <<decodeVars, rowVars, runVars, flowVars, webVars>>

\* await new Promise((resolve) => setTimeout(resolve, delay)) settles
Backoff ==
    /\ fetcher.pc = "wait"
    /\ fetcher' = BackoffStep(fetcher)
    /\ UNCHANGED <<decodeVars, rowVars, runVars, flowVars, webVars>>

NextFetch == FetchAttempt \/ Backoff

SpecFetch == InitFetch /\ [][NextFetch]_vars

\* every fetch settles and every timer fires
FairFetch == SpecFetch /\ WF_vars(NextFetch)

-----------------------------------------------------------------------------
(* Spec: calls of runIngest, which share the database and the key-value store *)

MaxRuns == 2     \* calls of runIngest, which may overlap
MaxFaults == 1   \* database and key-value calls that fail
MaxPrev == 5     \* most rows in the snapshot that is there before the first run

\* the calls of runIngest of the behaviour
Runs == DOMAIN run

BothIndexes == {"doi_original", "doi_retraction"}

\* the tables that are there before the first run: a snapshot of the last
\* week, a snapshot older than the retention window, the table of the schema
\* before snapshots, and a table that is no snapshot
PrevTable == Snapshot(T0 - 1)
OldTable == Snapshot(0)
GoneTable == Snapshot(1)
InitialTables(p) ==
    (PrevTable :> [rows |-> LoadedRows(p, T0 - 1), idx |-> BothIndexes, by |-> 0])
    @@ (OldTable :> [rows |-> LoadedRows(1, 0), idx |-> BothIndexes, by |-> 0])
    @@ (LegacyTable :> NewTable(0))
    @@ (BackupTable :> NewTable(0))

\* what ingest:active_table may hold before the first run: nothing, a name
\* that is no snapshot name, either snapshot, or a snapshot that is gone
InitialPointers == {NoTable, LegacyTable, PrevTable, OldTable, GoneTable}

NoMetadata == [tableName |-> NoTable, rowCount |-> 0, updatedAt |-> -1]

IdleRun ==
    [pc |-> "idle",
     newTableName |-> NoTable, previousTable |-> NoTable,
     response |-> NoResponse,
     issued |-> {},
     threw |-> {},
     processedRows |-> 0, skippedRows |-> 0,
     indexesCreated |-> FALSE,
     healthChecks |-> NoHealth,
     cutoffDate |-> 0, expired |-> {}, cleanedUpTables |-> <<>>,
     error |-> <<>>]

\* the bodies served where runs overlap: no row, no accepted row, one row
OverlapBodies == {<<>>, Body(0, 0, 0), Body(0, 0, 1), Body(1, 0, 0), Body(1, 0, 1)}

\* calls of runIngest that may overlap
Init ==
    /\ clock = T0
    /\ activeTable \in InitialPointers
    /\ tables = InitialTables(1)
    /\ metadata = NoMetadata
    /\ run = [r \in 1..MaxRuns |-> IdleRun]
    /\ upstream = OverlapBodies
    /\ faults = MaxFaults
    /\ DecodeOff /\ RowsOff /\ FetchOff /\ FlowOff /\ WebOff

\* one call of runIngest, on every body and every earlier snapshot
InitOne ==
    /\ clock = T0
    /\ \/ activeTable = PrevTable /\ \E p \in 0..MaxPrev : tables = InitialTables(p)
       \/ activeTable \in InitialPointers \ {PrevTable} /\ tables = InitialTables(1)
    /\ metadata = NoMetadata
    /\ run = [r \in 1..1 |-> IdleRun]
    /\ upstream = Bodies
    /\ faults = MaxFaults
    /\ DecodeOff /\ RowsOff /\ FetchOff /\ FlowOff /\ WebOff

\* the run is suspended at the await of this step
At(r, step) == r \in Runs /\ run[r].pc = step

\* the call rejects with the given message: runIngest catches nothing
Raise(r, message) ==
    run' = [run EXCEPT ![r].pc = "raised", ![r].error = message]

\* a database or key-value call fails
Fault == faults > 0 /\ faults' = faults - 1

\* the call rejects after it has sent the statements to the database
RaiseIssued(r, message, stmts) ==
    run' = [run EXCEPT ![r].pc = "raised", ![r].error = message,
                       ![r].issued = @ \cup stmts]

InvalidName == <<"Invalid table name format">>
D1Error == <<"D1_ERROR">>
KVError == <<"KV put failed">>

\* time passes
Tick ==
    /\ \E t \in Times : t > clock /\ clock' = t
    /\ UNCHANGED <<activeTable, metadata, tables, run, faults>>
    /\ UNCHANGED <<decodeVars, rowVars, upstream, fetchVars, flowVars, webVars>>

\* runIngest is called: generateTableName. The calls take the slots in order.
BeginRun(r) ==
    /\ At(r, "idle")
    /\ \A q \in Runs : q < r => ~At(q, "idle")
    /\ run' = [run EXCEPT ![r].pc = "pointer",
                          ![r].newTableName = GenerateTableName(clock)]

\* runIngest is called, by handleCron or by the handler of /v1/ingest
StartRun(r) ==
    /\ BeginRun(r)
    /\ UNCHANGED <<clock, activeTable, metadata, tables, faults>>
    /\ UNCHANGED <<decodeVars, rowVars, upstream, fetchVars, flowVars, webVars>>

\* previousTable = await env.RETRACTCHECK_CACHE.get(ACTIVE_TABLE_KEY)
ReadPointer(r) ==
    /\ At(r, "pointer")
    /\ run' = [run EXCEPT ![r].pc = "fetch", ![r].previousTable = activeTable]
    /\ UNCHANGED <<clock, activeTable, metadata, tables, faults>>
    /\ UNCHANGED <<decodeVars, rowVars, upstream, fetchVars, flowVars, webVars>>

\* what the fetch calls of a run may give
RunOutcomes ==
    {NetworkFailure, Response(200, TRUE, Null), Response(200, FALSE, Null),
     Response(404, TRUE, Null), Response(503, TRUE, Null)}

\* what the caller of fetchWithRetry gets: the response, or the error
Settled(f) == [pc |-> f.pc, result |-> f.result, error |-> f.error]

\* a plausible bug: a response without body is taken for a download
NotOk(response) == ~Ok(response)

\* !response.ok || !response.body
FetchFailed(response) == ~Ok(response) \/ ~response.body

FetchError(response) == <<"CSV fetch failed", ToString(response.status)>>

\* response = await fetchWithRetry(...), and the test of response.ok and body
Fetch(r) ==
    /\ At(r, "fetch")
    /\ \E f \in {Settled(FetchWithRetry(outcomes)) :
                    outcomes \in [1..MAX_RETRIES -> RunOutcomes]} :
        IF f.pc = "raised" THEN Raise(r, f.error)
        ELSE IF FetchFailed(f.result)
        THEN run' = [run EXCEPT ![r].pc = "raised", ![r].response = f.result,
                                ![r].error = FetchError(f.result)]
        ELSE run' = [run EXCEPT ![r].pc = "create", ![r].response = f.result]
    /\ UNCHANGED <<clock, activeTable, metadata, tables, faults>>
    /\ UNCHANGED <<decodeVars, rowVars, upstream, fetchVars, flowVars, webVars>>

\* await createTable(db, newTableName): CREATE TABLE IF NOT EXISTS
CreateTable(r) ==
    /\ At(r, "create")
    /\ \/ /\ IsSnapshotName(run[r].newTableName)
          /\ tables' = IF Exists(tables, run[r].newTableName) THEN tables
                       ELSE WithTable(tables, run[r].newTableName, NewTable(r))
          /\ run' = [run EXCEPT
                       ![r].pc = "load",
                       ![r].issued = @ \cup {Stmt("CREATE TABLE", run[r].newTableName)}]
          /\ UNCHANGED faults
       \/ /\ IsSnapshotName(run[r].newTableName)
          /\ Fault
          /\ RaiseIssued(r, D1Error, {Stmt("CREATE TABLE", run[r].newTableName)})
          /\ UNCHANGED tables
       \/ /\ ~IsSnapshotName(run[r].newTableName)
          /\ Raise(r, InvalidName)
          /\ UNCHANGED <<tables, faults>>
    /\ UNCHANGED <<clock, activeTable, metadata>>
    /\ UNCHANGED <<decodeVars, rowVars, upstream, fetchVars, flowVars, webVars>>

\* await streamInsertData(db, newTableName, response.body): a body of fewer
\* rows than BATCH_SIZE is written by the one flush at its end
StreamInsert(r) ==
    /\ At(r, "load")
    /\ \E body \in upstream :
       \E st \in {StreamInsertData(<<body>>, <<>>, clock)} :
       \E batch \in {Flatten(st.writes)} :
        \/ /\ batch # <<>> => Exists(tables, run[r].newTableName) /\ Storable(batch)
           /\ tables' =
                IF batch = <<>> THEN tables
                ELSE WithTable(tables, run[r].newTableName,
                               [tables[run[r].newTableName] EXCEPT !.rows = Upsert(@, batch)])
           /\ run' = [run EXCEPT
                        ![r].pc = "index",
                        ![r].processedRows = st.processedRows,
                        ![r].skippedRows = st.skippedRows,
                        ![r].issued =
                            IF batch = <<>> THEN @
                            ELSE @ \cup {Stmt("INSERT OR REPLACE", run[r].newTableName)}]
           /\ UNCHANGED faults
        \/ /\ batch # <<>>
           /\ ~(Exists(tables, run[r].newTableName) /\ Storable(batch))
           /\ RaiseIssued(r, D1Error, {Stmt("INSERT OR REPLACE", run[r].newTableName)})
           /\ UNCHANGED <<tables, faults>>
        \/ /\ batch # <<>>
           /\ Fault
           /\ RaiseIssued(r, D1Error, {Stmt("INSERT OR REPLACE", run[r].newTableName)})
           /\ UNCHANGED tables
    /\ UNCHANGED <<clock, activeTable, metadata>>
    /\ UNCHANGED <<decodeVars, rowVars, upstream, fetchVars, flowVars, webVars>>

\* await createIndexes(db, newTableName): a failure is caught and gives false
CreateIndexes(r) ==
    /\ At(r, "index")
    /\ LET n == run[r].newTableName
       IN  \/ /\ IsSnapshotName(n)
              /\ Exists(tables, n)
              /\ tables' = WithTable(tables, n, [tables[n] EXCEPT !.idx = BothIndexes])
              /\ run' = [run EXCEPT ![r].pc = "health", ![r].indexesCreated = TRUE,
                                    ![r].issued = @ \cup {Stmt("CREATE INDEX", n)}]
              /\ UNCHANGED faults
           \/ /\ IsSnapshotName(n)
              /\ ~Exists(tables, n)
              /\ run' = [run EXCEPT ![r].pc = "health", ![r].indexesCreated = FALSE,
                                    ![r].issued = @ \cup {Stmt("CREATE INDEX", n)}]
              /\ UNCHANGED <<tables, faults>>
           \/ /\ IsSnapshotName(n)
              /\ Exists(tables, n)
              /\ Fault
              /\ \E made \in {{}, {"doi_original"}} :
                    tables' = WithTable(tables, n, [tables[n] EXCEPT !.idx = @ \cup made])
              /\ run' = [run EXCEPT ![r].pc = "health", ![r].indexesCreated = FALSE,
                                    ![r].issued = @ \cup {Stmt("CREATE INDEX", n)}]
           \/ /\ ~IsSnapshotName(n)
              /\ Raise(r, InvalidName)
              /\ UNCHANGED <<tables, faults>>
    /\ UNCHANGED <<clock, activeTable, metadata>>
    /\ UNCHANGED <<decodeVars, rowVars, upstream, fetchVars, flowVars, webVars>>

\* await runHealthChecks(db, newTableName, previousTable)
HealthGate(r) ==
    /\ At(r, "health")
    /\ \E failing \in SUBSET HealthQueries :
        /\ Cardinality(failing) <= faults
        /\ faults' = faults - Cardinality(failing)
        /\ LET healthChecks ==
                   RunHealthChecks(tables, run[r].newTableName, run[r].previousTable, failing)
           IN  run' = [run EXCEPT
                         ![r].pc = IF healthChecks.passed THEN "activate" ELSE "rollback",
                         ![r].healthChecks = healthChecks,
                         ![r].threw = Thrown(tables, run[r].newTableName,
                                             run[r].previousTable, failing),
                         ![r].issued =
                             @ \cup HealthStatements(run[r].newTableName,
                                                     run[r].previousTable)]
    /\ UNCHANGED <<clock, activeTable, metadata, tables>>
    /\ UNCHANGED <<decodeVars, rowVars, upstream, fetchVars, flowVars, webVars>>

\* a variant in which pointer and metadata are written in one step
ActivateWithMetadata(r) ==
    /\ At(r, "activate")
    /\ activeTable' = run[r].newTableName
    /\ metadata' = [tableName |-> run[r].newTableName,
                    rowCount |-> run[r].healthChecks.rowCount,
                    updatedAt |-> clock]
    /\ run' = [run EXCEPT ![r].pc = "cleanup"]
    /\ UNCHANGED <<clock, tables, faults>>
    /\ UNCHANGED <<decodeVars, rowVars, upstream, fetchVars, flowVars, webVars>>

\* a plausible bug: the pointer is written only when it moves forward
ActivateIfNewer(r) ==
    /\ At(r, "activate")
    /\ activeTable' = IF ParseTableTimestamp(activeTable)
                            > ParseTableTimestamp(run[r].newTableName)
                      THEN activeTable ELSE run[r].newTableName
    /\ run' = [run EXCEPT ![r].pc = "metadata"]
    /\ UNCHANGED <<clock, metadata, tables, faults>>
    /\ UNCHANGED <<decodeVars, rowVars, upstream, fetchVars, flowVars, webVars>>

\* a plausible bug: the pointer is written while the checks are pending
ActivateUngated(r) ==
    /\ At(r, "health")
    /\ activeTable' = run[r].newTableName
    /\ run' = [run EXCEPT ![r].pc = "metadata"]
    /\ UNCHANGED <<clock, metadata, tables, faults>>
    /\ UNCHANGED <<decodeVars, rowVars, upstream, fetchVars, flowVars, webVars>>

\* healthChecks.passed: await cache.put(ACTIVE_TABLE_KEY, newTableName)
Activate(r) ==
    /\ At(r, "activate")
    /\ \/ /\ activeTable' = run[r].newTableName
          /\ run' = [run EXCEPT ![r].pc = "metadata"]
          /\ UNCHANGED faults
       \/ /\ Fault
          /\ Raise(r, KVError)
          /\ UNCHANGED activeTable
    /\ UNCHANGED <<clock, metadata, tables>>
    /\ UNCHANGED <<decodeVars, rowVars, upstream, fetchVars, flowVars, webVars>>

\* a plausible bug: the metadata carries the count of the previous snapshot
RunMetadataPreviousCount(newTableName, healthChecks, now) ==
    [tableName |-> newTableName,
     rowCount |-> healthChecks.previousRowCount,
     updatedAt |-> now]

\* const metadata = { tableName, rowCount, updatedAt }
RunMetadata(newTableName, healthChecks, now) ==
    [tableName |-> newTableName,
     rowCount |-> healthChecks.rowCount,
     updatedAt |-> now]

\* await cache.put('ingest:metadata', ...)
PutMetadata(r) ==
    /\ At(r, "metadata")
    /\ \/ /\ metadata' = RunMetadata(run[r].newTableName, run[r].healthChecks, clock)
          /\ run' = [run EXCEPT ![r].pc = "cleanup"]
          /\ UNCHANGED faults
       \/ /\ Fault
          /\ Raise(r, KVError)
          /\ UNCHANGED metadata
    /\ UNCHANGED <<clock, activeTable, tables>>
    /\ UNCHANGED <<decodeVars, rowVars, upstream, fetchVars, flowVars, webVars>>

\* !healthChecks.passed: await dropTable(db, newTableName), then the throw
HealthError(errors) == <<"Ingest health checks failed">> \o errors
Rollback(r) ==
    /\ At(r, "rollback")
    /\ \/ /\ IsSnapshotName(run[r].newTableName)
          /\ tables' = WithoutTable(tables, run[r].newTableName)
          /\ RaiseIssued(r, HealthError(run[r].healthChecks.errors),
                         {Stmt("DROP TABLE", run[r].newTableName)})
          /\ UNCHANGED faults
       \/ /\ IsSnapshotName(run[r].newTableName)
          /\ Fault
          /\ RaiseIssued(r, D1Error, {Stmt("DROP TABLE", run[r].newTableName)})
          /\ UNCHANGED tables
       \/ /\ ~IsSnapshotName(run[r].newTableName)
          /\ Raise(r, InvalidName)
          /\ UNCHANGED <<tables, faults>>
    /\ UNCHANGED <<clock, activeTable, metadata>>
    /\ UNCHANGED <<decodeVars, rowVars, upstream, fetchVars, flowVars, webVars>>

\* a plausible bug: every other snapshot listed is dropped, whatever its age
ExpiredWhateverAge(listed, currentTableName, cutoffDate) ==
    {n \in listed : n # currentTableName /\ ParseTableTimestamp(n) # -1}

\* the names cleanupOldTables goes on to drop, of those the listing returned:
\* the loop awaits nothing between the listing and the first drop
Expired(listed, currentTableName, cutoffDate) ==
    {n \in listed :
        /\ n # currentTableName
        /\ ParseTableTimestamp(n) # -1
        /\ ParseTableTimestamp(n) < cutoffDate}

\* cleanupOldTables up to the listing; a failed listing is caught
ListTables(r) ==
    /\ At(r, "cleanup")
    /\ \/ LET listed == {n \in DOMAIN tables : LikeEntries(n)}
              expired == Expired(listed, run[r].newTableName, CutoffDate(clock))
          IN  /\ run' = [run EXCEPT
                           ![r].pc = IF expired = {} THEN "returned" ELSE "dropping",
                           ![r].cutoffDate = CutoffDate(clock),
                           ![r].expired = expired]
              /\ UNCHANGED faults
       \/ /\ Fault
          /\ run' = [run EXCEPT ![r].pc = "returned", ![r].cutoffDate = CutoffDate(clock)]
    /\ UNCHANGED <<clock, activeTable, metadata, tables>>
    /\ UNCHANGED <<decodeVars, rowVars, upstream, fetchVars, flowVars, webVars>>

\* a plausible bug: the rejection of a drop leaves cleanupOldTables
DropFailedUncaught(r, n) == RaiseIssued(r, D1Error, {Stmt("DROP TABLE", n)})

\* the catch block of cleanupOldTables, entered from a drop of the loop: the
\* function returns cleanedUp as it stands
DropFailed(r, n) ==
    run' = [run EXCEPT ![r].pc = "returned",
                       ![r].issued = @ \cup {Stmt("DROP TABLE", n)}]

\* one await dropTable(db, tableName) of the loop; a failed drop ends the loop
DropOldTable(r) ==
    /\ At(r, "dropping")
    /\ \E n \in run[r].expired :
        \/ /\ IsSnapshotName(n)
           /\ tables' = WithoutTable(tables, n)
           /\ run' = [run EXCEPT
                        ![r].pc = IF run[r].expired = {n} THEN "returned" ELSE "dropping",
                        ![r].expired = @ \ {n},
                        ![r].cleanedUpTables = Append(@, n),
                        ![r].issued = @ \cup {Stmt("DROP TABLE", n)}]
           /\ UNCHANGED faults
        \/ /\ IsSnapshotName(n)
           /\ Fault
           /\ DropFailed(r, n)
           /\ UNCHANGED tables
        \/ /\ ~IsSnapshotName(n)
           /\ run' = [run EXCEPT ![r].pc = "returned"]
           /\ UNCHANGED <<tables, faults>>
    /\ UNCHANGED <<clock, activeTable, metadata>>
    /\ UNCHANGED <<decodeVars, rowVars, upstream, fetchVars, flowVars, webVars>>

\* a step of a call of runIngest that has begun
RunStep(r) ==
        \/ ReadPointer(r)
        \/ Fetch(r)
        \/ CreateTable(r)
        \/ StreamInsert(r)
        \/ CreateIndexes(r)
        \/ HealthGate(r)
        \/ Activate(r)
        \/ PutMetadata(r)
        \/ Rollback(r)
        \/ ListTables(r)
        \/ DropOldTable(r)

Next ==
    \/ Tick
    \/ \E r \in 1..MaxRuns : StartRun(r) \/ RunStep(r)

Spec == Init /\ [][Next]_vars

SpecOne == InitOne /\ [][Next]_vars

\* two calls of runIngest that may overlap, no call to the database or the
\* key-value store failing, on bodies of no, one and two accepted rows
InitTwo ==
    /\ clock = T0
    /\ activeTable = PrevTable
    /\ tables = InitialTables(1)
    /\ metadata = NoMetadata
    /\ run = [r \in 1..MaxRuns |-> IdleRun]
    /\ upstream = {Body(0, 0, 0), Body(1, 0, 0), Body(2, 0, 0)}
    /\ faults = 0
    /\ DecodeOff /\ RowsOff /\ FetchOff /\ FlowOff /\ WebOff

SpecTwo == InitTwo /\ [][Next]_vars

-----------------------------------------------------------------------------
(* SpecRead: fetchStatus, the reader of the active snapshot, beside one run *)

\* a pointer value that is no table name of the program
JunkTable == [pre |-> "entries_1; DROP TABLE entries", ts |-> -1]

\* /^entries(_\d{14})?$/.test(tableName)
IsReadableName(tableName) == tableName = LegacyTable \/ IsSnapshotName(tableName)

\* the DOI of the lookup, normalised
LookupDoi == <<"10.1234/a">>

\* the record ids of the rows WHERE doi_norm_original = ? OR doi_norm_retraction = ?
RowsFor(db, n, doi) ==
    {id \in DOMAIN db[n].rows : db[n].rows[id].orig = doi \/ db[n].rows[id].retr = doi}

IdleLookup ==
    [pc |-> "idle", tableName |-> NoTable, records |-> {}, datasetVersion |-> NoTable,
     issued |-> {}, error |-> <<>>]

InitRead ==
    /\ clock = T0
    /\ activeTable \in InitialPointers \cup {JunkTable}
    /\ tables = InitialTables(1)
    /\ metadata = NoMetadata
    /\ run = [r \in 1..1 |-> IdleRun]
    /\ upstream = OverlapBodies
    /\ faults = MaxFaults
    /\ lookup = IdleLookup
    /\ DecodeOff /\ RowsOff /\ FetchOff /\ FlowOff /\ HttpOff /\ QuotaOff

\* fromCache misses; activeTable = await getActiveTableName(cache), the
\* fallback to the legacy name and the test of the name
ReadActiveTable ==
    /\ lookup.pc = "idle"
    /\ \E tableName \in {IF activeTable = NoTable THEN LegacyTable ELSE activeTable} :
        IF IsReadableName(tableName)
        THEN lookup' = [lookup EXCEPT !.pc = "query", !.tableName = tableName]
        ELSE lookup' = [lookup EXCEPT !.pc = "raised", !.tableName = tableName,
                                      !.error = <<"Invalid table name">>]
    /\ UNCHANGED <<decodeVars, rowVars, runVars, fetchVars, flowVars, httpVars, quotaVars>>

\* rows = await stmt.bind(doi, doi).all(): the SELECT on the table
QueryTable ==
    /\ lookup.pc = "query"
    /\ IF Exists(tables, lookup.tableName)
       THEN lookup' = [lookup EXCEPT
                         !.pc = "meta",
                         !.records = RowsFor(tables, lookup.tableName, LookupDoi),
                         !.issued = @ \cup {Stmt("SELECT status", lookup.tableName)}]
       ELSE lookup' = [lookup EXCEPT
                         !.pc = "raised", !.error = D1Error,
                         !.issued = @ \cup {Stmt("SELECT status", lookup.tableName)}]
    /\ UNCHANGED <<decodeVars, rowVars, runVars, fetchVars, flowVars, httpVars, quotaVars>>

\* metadataRaw = await cache.get(METADATA_KEY), and the response is built
ReadMetadata ==
    /\ lookup.pc = "meta"
    /\ lookup' = [lookup EXCEPT !.pc = "returned", !.datasetVersion = metadata.tableName]
    /\ UNCHANGED <<decodeVars, rowVars, runVars, fetchVars, flowVars, httpVars, quotaVars>>

NextRead ==
    \/ Next
    \/ ReadActiveTable
    \/ QueryTable
    \/ ReadMetadata

SpecRead == InitRead /\ [][NextRead]_vars

-----------------------------------------------------------------------------
(* SpecHttp: one request to /v1/ingest *)

MaxBlanks == 2   \* most blanks between the scheme and the token of a header

\* the secrets INGEST_TOKEN may hold; Null when it is not configured
IngestTokens == {Null, <<"s">>, <<"s", "x">>}

\* the words /^Bearer/i matches, taken as one symbol each
BearerWords == {"Bearer", "bearer", "BEARER"}

RECURSIVE Blanks(_)
Blanks(k) == IF k = 0 THEN <<>> ELSE <<SPACE>> \o Blanks(k - 1)

\* the Authorization headers of the requests; Null when the request has none
AuthHeaders ==
    {Null, <<"s">>, <<"x">>, <<"Bearer">>, <<"Bearer", SPACE>>, <<"Bearer", "s">>,
     <<"Basic", SPACE, "s">>, <<"Bearer", SPACE, "x">>, <<"Bearer", SPACE, "s", "x">>}
    \cup {<<w>> \o Blanks(k) \o <<"s">> : w \in BearerWords, k \in 1..MaxBlanks}

Methods == {"POST", "GET", "OPTIONS"}

Requests ==
    {[method |-> m, authorization |-> a, ingestToken |-> t] :
        m \in Methods, a \in AuthHeaders, t \in IngestTokens}

\* authHeader.replace(/^Bearer\s+/i, "")
StripBearer(authHeader) ==
    IF Len(authHeader) >= 2 /\ authHeader[1] \in BearerWords /\ authHeader[2] \in WhiteSpace
    THEN TrimStart(Tail(authHeader))
    ELSE authHeader

\* a plausible bug: the comparison stops at the end of the shorter string
SecureCompareNoLength(a, b) ==
    \A i \in 1..(IF Len(a) < Len(b) THEN Len(a) ELSE Len(b)) : a[i] = b[i]

\* secureCompare: diff collects the length test and every position up to the
\* longer length, a missing character counting as code 0
SecureCompare(a, b) ==
    LET CharCodeAt(str, i) == IF i <= Len(str) THEN str[i] ELSE "\\0"
        maxLen == IF Len(a) > Len(b) THEN Len(a) ELSE Len(b)
    IN  /\ Len(a) = Len(b)
        /\ \A i \in 1..maxLen : CharCodeAt(a, i) = CharCodeAt(b, i)

\* the status the handler answers with before runIngest; 0 when it goes on
Refusal(request) ==
    IF request.method # "POST" THEN 405
    ELSE IF request.ingestToken = Null \/ request.ingestToken = <<>> THEN 403
    ELSE IF StripBearer(IF request.authorization = Null THEN <<>>
                        ELSE request.authorization) = <<>>
    THEN 401
    ELSE IF ~SecureCompare(StripBearer(IF request.authorization = Null THEN <<>>
                                       ELSE request.authorization),
                           request.ingestToken)
    THEN 401
    ELSE 0

InitHttp ==
    /\ clock = T0
    /\ activeTable \in {NoTable, PrevTable}
    /\ tables = InitialTables(1)
    /\ metadata = NoMetadata
    /\ run = [r \in 1..1 |-> IdleRun]
    /\ upstream = {Body(0, 0, 0), Body(1, 0, 0)}
    /\ faults = MaxFaults
    /\ http \in {[pc |-> "received", request |-> q, status |-> 0,
                  before |-> <<activeTable, metadata, tables>>] : q \in Requests}
    /\ DecodeOff /\ RowsOff /\ FetchOff /\ FlowOff /\ ReadOff /\ QuotaOff

\* the handler up to its first await: a refusal, or the call of runIngest
HandleIngest ==
    /\ http.pc = "received"
    /\ IF Refusal(http.request) # 0
       THEN /\ http' = [http EXCEPT !.pc = "answered", !.status = Refusal(http.request)]
            /\ UNCHANGED run
       ELSE /\ BeginRun(1)
            /\ http' = [http EXCEPT !.pc = "running"]
    /\ UNCHANGED <<clock, activeTable, metadata, tables, upstream, faults>>
    /\ UNCHANGED <<decodeVars, rowVars, fetchVars, flowVars, readVars, quotaVars>>

\* runIngest has settled: 200 with the stats, or 500 with the message
Respond ==
    /\ http.pc = "running"
    /\ run[1].pc \in {"returned", "raised"}
    /\ http' = [http EXCEPT !.pc = "answered",
                            !.status = IF run[1].pc = "returned" THEN 200 ELSE 500]
    /\ UNCHANGED <<decodeVars, rowVars, runVars, fetchVars, flowVars, readVars, quotaVars>>

NextHttp ==
    \/ HandleIngest
    \/ Respond
    \/ Tick
    \/ \E r \in 1..MaxRuns : RunStep(r)

SpecHttp == InitHttp /\ [][NextHttp]_vars

(***************************************************************************)
(* The request quota, apps/api/src/index.ts.  Requests are handled one     *)
(* after another; the counters live in the key-value store under one key   *)
(* per type, scope, id and window.                                         *)
(***************************************************************************)
MaxRequests == 4   \* requests handled one after another

RateLimitTypes == {"status", "override"}

Entry(limit, windowSeconds, ipLimit) ==
    [limit |-> limit, windowSeconds |-> windowSeconds, ipLimit |-> ipLimit]

\* The configurations of test/status.test.ts, and one whose override entry
\* has no ipLimit (0 stands for the absent field, falsy in the code).
RateLimitConfigs ==
    { [status |-> Entry(2, 60, 3), override |-> Entry(1, 60, 2)],
      [status |-> Entry(5, 60, 5), override |-> Entry(5, 60, 2)],
      [status |-> Entry(2, 60, 3), override |-> Entry(1, 60, 0)] }

ClientIds == {"client-a", "client-b", "client-c"}

RequestIps == {"203.0.113.1", "203.0.113.10"}

\* Two instants of one window and the first instant of the next.
Nows == {120, 179, 180}

BucketStart(nowSeconds, windowSeconds) ==
    (nowSeconds \div windowSeconds) * windowSeconds

QuotaKey(type, scope, id, bucketStart) == <<type, scope, id, bucketStart>>

QuotaKeys ==
    { QuotaKey(type, "client", id, BucketStart(now, 60)) :
          type \in RateLimitTypes, id \in ClientIds, now \in Nows }
    \cup
    { QuotaKey(type, "ip", id, BucketStart(now, 60)) :
          type \in RateLimitTypes, id \in RequestIps, now \in Nows }

MaxOf(a, b) == IF a >= b THEN a ELSE b

\* The off-by-one variant: refuses only above the limit.
IncrementCounterInclusive(cache, key, limit, windowSeconds, bucketStart, nowSeconds) ==
    IF cache[key] > limit
    THEN [allowed |-> FALSE,
          retryAfterSeconds |-> MaxOf(1, bucketStart + windowSeconds - nowSeconds),
          cache |-> cache]
    ELSE [allowed |-> TRUE,
          retryAfterSeconds |-> MaxOf(1, bucketStart + windowSeconds - nowSeconds),
          cache |-> [cache EXCEPT ![key] = @ + 1]]

\* incrementCounter: a missing key reads as 0; the counter is written back
\* only when the request is allowed at this scope.
IncrementCounter(cache, key, limit, windowSeconds, bucketStart, nowSeconds) ==
    IF cache[key] >= limit
    THEN [allowed |-> FALSE,
          retryAfterSeconds |-> MaxOf(1, bucketStart + windowSeconds - nowSeconds),
          cache |-> cache]
    ELSE [allowed |-> TRUE,
          retryAfterSeconds |-> MaxOf(1, bucketStart + windowSeconds - nowSeconds),
          cache |-> [cache EXCEPT ![key] = @ + 1]]

IpScope(config, type, ip, nowSeconds, clientResult) ==
    IF config.ipLimit = 0
    THEN [ok |-> TRUE, retryAfterSeconds |-> 0, scope |-> "none",
          cache |-> clientResult.cache]
    ELSE LET Answer(ipResult) ==
                 IF ~ipResult.allowed
                 THEN [ok |-> FALSE,
                       retryAfterSeconds |-> ipResult.retryAfterSeconds,
                       scope |-> "ip", cache |-> ipResult.cache]
                 ELSE [ok |-> TRUE, retryAfterSeconds |-> 0, scope |-> "none",
                       cache |-> ipResult.cache]
         IN  Answer(IncrementCounter(clientResult.cache,
                 QuotaKey(type, "ip", ip,
                          BucketStart(nowSeconds, config.windowSeconds)),
                 config.ipLimit, config.windowSeconds,
                 BucketStart(nowSeconds, config.windowSeconds), nowSeconds))

\* enforceQuota: the client counter first, then the IP counter.
EnforceQuota(cache, config, type, clientId, ip, nowSeconds) ==
    LET Answer(clientResult) ==
            IF ~clientResult.allowed
            THEN [ok |-> FALSE,
                  retryAfterSeconds |-> clientResult.retryAfterSeconds,
                  scope |-> "client", cache |-> clientResult.cache]
            ELSE IpScope(config, type, ip, nowSeconds, clientResult)
    IN  Answer(IncrementCounter(cache,
            QuotaKey(type, "client", clientId,
                     BucketStart(nowSeconds, config.windowSeconds)),
            config.limit, config.windowSeconds,
            BucketStart(nowSeconds, config.windowSeconds), nowSeconds))

QuotaExceededResponse(type, result) ==
    [status |-> 429, type |-> type, scope |-> result.scope,
     retryAfter |-> MaxOf(1, result.retryAfterSeconds), served |-> FALSE]

Served(type, status) ==
    [status |-> status, type |-> type, scope |-> "none", retryAfter |-> 0,
     served |-> TRUE]

NoAnswer ==
    [status |-> 0, type |-> "none", scope |-> "none", retryAfter |-> 0,
     served |-> FALSE]

\* made, allowed and the fields of `asked` are ghosts: the requests made per
\* client key, the requests allowed per IP key, and what they were when the
\* last request arrived.
InitQuota ==
    /\ DecodeOff /\ RowsOff /\ RunsOff /\ FetchOff /\ FlowOff /\ ReadOff /\ HttpOff
    /\ race = <<>>
    /\ quota \in
         { [config |-> c,
            cache |-> [k \in QuotaKeys |-> 0],
            clock |-> 120,
            count |-> 0,
            made |-> [k \in QuotaKeys |-> 0],
            allowed |-> [k \in QuotaKeys |-> 0],
            asked |-> [type |-> "none", entry |-> c.status, nth |-> 0,
                      before |-> 0],
            answer |-> NoAnswer] : c \in RateLimitConfigs }

\* One request that reaches the quota: the records `quota` may become.
Quota(type, clientId, ip, nowSeconds, statuses) ==
    { [quota EXCEPT
          !.cache = r.result.cache,
          !.clock = nowSeconds,
          !.count = @ + 1,
          !.made[r.ck] = @ + 1,
          !.allowed[r.ik] = IF r.result.ok THEN @ + 1 ELSE @,
          !.asked = [type |-> type, entry |-> quota.config[type],
                     nth |-> quota.made[r.ck] + 1,
                     before |-> quota.allowed[r.ik]],
          !.answer = IF r.result.ok
                     THEN Served(type, r.status)
                     ELSE QuotaExceededResponse(type, r.result)] :
      r \in { [result |-> EnforceQuota(quota.cache, quota.config[type], type,
                                       clientId, ip, nowSeconds),
               ck |-> QuotaKey(type, "client", clientId,
                        BucketStart(nowSeconds, quota.config[type].windowSeconds)),
               ik |-> QuotaKey(type, "ip", ip,
                        BucketStart(nowSeconds, quota.config[type].windowSeconds)),
               status |-> status] : status \in statuses } }

\* GET /v1/status with a DOI: the quota, then the lookup (200, or 500 when
\* the lookup throws).
HandleStatus ==
    /\ quota # <<>>
    /\ quota.count < MaxRequests
    /\ \E clientId \in ClientIds, ip \in RequestIps, nowSeconds \in Nows :
         /\ nowSeconds >= quota.clock
         /\ quota' \in Quota("status", clientId, ip, nowSeconds, {200, 500})
    /\ UNCHANGED <<decodeVars, rowVars, runVars, fetchVars, flowVars, readVars, httpVars>>
    /\ UNCHANGED race

\* POST /v1/override with a host: the quota, then the event is stored (200,
\* or 500 when storing throws).
HandleOverride ==
    /\ quota # <<>>
    /\ quota.count < MaxRequests
    /\ \E clientId \in ClientIds, ip \in RequestIps, nowSeconds \in Nows :
         /\ nowSeconds >= quota.clock
         /\ quota' \in Quota("override", clientId, ip, nowSeconds, {200, 500})
    /\ UNCHANGED <<decodeVars, rowVars, runVars, fetchVars, flowVars, readVars, httpVars>>
    /\ UNCHANGED race

NextQuota == HandleStatus \/ HandleOverride

SpecQuota == InitQuota /\ [][NextQuota]_vars

-----------------------------------------------------------------------------
(* SpecRace: incrementCounter followed from await to await, for requests of *)
(* one client that are inside it at the same time (index.ts:546-566)         *)

MaxRacers == 3     \* requests of the client that may overlap

Racers == 1..MaxRacers

\* the limits of the client counter: those of the tests and the default
RaceLimits == {1, 2, 5}

\* a request before it calls enforceQuota
\*   idle:    not yet arrived
\*   get:     await cache.get(key) is pending (line 554)
\*   put:     the limit check has passed, await cache.put is pending (564)
\*   served:  incrementCounter returned allowed, the handler goes on
\*   refused: incrementCounter returned not allowed (429)
IdleRacer == [pc |-> "idle", current |-> 0]

InitRace ==
    /\ DecodeOff /\ RowsOff /\ RunsOff /\ FetchOff /\ FlowOff /\ ReadOff /\ HttpOff
    /\ quota = <<>>
    /\ \E limit \in RaceLimits : \E stored \in 0..limit :
         /\ race = [limit |-> limit,
                    stored |-> stored,      \* the value under the key
                    before |-> stored,      \* requests served earlier in the window
                    req |-> [i \in Racers |-> IdleRacer]]

RaceRest ==
    UNCHANGED <<decodeVars, rowVars, runVars, fetchVars, flowVars, readVars, httpVars, quota>>

\* the request reaches incrementCounter and calls cache.get
RaceArrive(i) ==
    /\ race # <<>>
    /\ race.req[i].pc = "idle"
    /\ race' = [race EXCEPT !.req[i].pc = "get"]
    /\ RaceRest

\* a variant with an atomic increment: the read, the check and the write
\* happen in one step
RaceGetAtomic(i) ==
    /\ race # <<>>
    /\ race.req[i].pc = "get"
    /\ race' = IF race.stored >= race.limit
               THEN [race EXCEPT !.req[i] = [pc |-> "refused", current |-> race.stored]]
               ELSE [race EXCEPT !.req[i] = [pc |-> "served", current |-> race.stored],
                                 !.stored = @ + 1]
    /\ RaceRest

\* cache.get resolves: current, then the check current >= limit
RaceGet(i) ==
    /\ race # <<>>
    /\ race.req[i].pc = "get"
    /\ race' = [race EXCEPT !.req[i] =
                   [pc |-> IF race.stored >= race.limit THEN "refused" ELSE "put",
                    current |-> race.stored]]
    /\ RaceRest

\* cache.put(key, String(current + 1)) resolves: allowed
RacePut(i) ==
    /\ race # <<>>
    /\ race.req[i].pc = "put"
    /\ race' = [race EXCEPT !.req[i].pc = "served",
                            !.stored = race.req[i].current + 1]
    /\ RaceRest

NextRace ==
    \/ \E i \in Racers : RaceArrive(i)
    \/ \E i \in Racers : RaceGet(i)
    \/ \E i \in Racers : RacePut(i)

SpecRace == InitRace /\ [][NextRace]_vars

-----------------------------------------------------------------------------
(* SpecFlow: the bulk writes of the load, one await at a time.  The Worker's *)
(* streamInsertData (ingest.ts:316-452) and the script's main                *)
(* (csv-to-sql.ts:108-190) are followed from one suspension point to the     *)
(* next: a bulk write is in flight from the call that issues it to the       *)
(* resumption that follows it.                                               *)

MaxPipes == 2    \* calls of streamInsertData, which may overlap
MaxLeft == 2     \* data rows still to come when the behaviour begins
MaxLag == 1      \* seconds between the starts of two runs
MaxOption == 2   \* largest --batch-size given to the script

Pipes == 1..MaxPipes

\* one call of streamInsertData, between two of its awaits
\*   reading:  in the read loop or in processRow, no write issued
\*   flushing: the INSERT of processRow's flushBatch is in flight (line 391)
\*   final:    the INSERT of the last flushBatch is in flight (line 445)
\*   returned: the counters have been returned (line 451)
\*   raised:   an INSERT was rejected and the call ended
PipeAt(tableName, batch, left) ==
    [pc |-> "reading", tableName |-> tableName, batch |-> batch,
     left |-> left, skippedRows |-> 0, writes |-> 0]

\* the script, between two of its awaits
\*   begin:   before the BEGIN of line 137
\*   piping:  the stream pipeline of lines 142-181 is running
\*   final:   final() has been called and waits on the chain (line 178)
\*   commit:  the pipeline has resolved; lines 183-186 are next
\*   closed:  the writer has been closed (line 187)
\* links is the chain `flushing`: the writes scheduled and not yet finished;
\* writing is the number of writeChunk calls of the chain that are running;
\* held says that write()'s callback is waiting on the chain (line 168).
ScriptAt(batchSize, useTransaction, left) ==
    [pc |-> "begin", batchSize |-> batchSize, useTransaction |-> useTransaction,
     batch |-> 0, left |-> left, skipped |-> 0, links |-> 0, writing |-> 0,
     held |-> FALSE, out |-> <<>>]

\* parseArgs: the --batch-size option, DEFAULT_BATCH_SIZE when it is absent,
\* zero, negative or not a number (here 0 stands for all of these)
BatchSizeOption(given) == IF given < 1 THEN DEFAULT_BATCH_SIZE ELSE given

InitFlow ==
    /\ DecodeOff /\ RowsOff /\ RunsOff /\ FetchOff /\ WebOff
    /\ \E lag \in [Pipes -> 0..MaxLag],
          batch \in [Pipes -> {0, BATCH_SIZE - 2}],
          left \in [Pipes -> 0..MaxLeft],
          given \in 0..MaxOption, useTransaction \in BOOLEAN,
          scriptLeft \in 0..MaxLeft :
         flow = [worker |-> [p \in Pipes |->
                     PipeAt(GenerateTableName(T0 + lag[p]), batch[p], left[p])],
                 script |-> ScriptAt(BatchSizeOption(given), useTransaction,
                                     scriptLeft)]

FlowRest == UNCHANGED <<decodeVars, rowVars, runVars, fetchVars, webVars>>

\* processRow on a row that validateRow accepts: the record is pushed, and a
\* full batch is handed to flushBatch, whose INSERT is awaited
PipeRow(w) ==
    IF w.batch + 1 >= BATCH_SIZE
    THEN [w EXCEPT !.batch = @ + 1, !.left = @ - 1, !.pc = "flushing"]
    ELSE [w EXCEPT !.batch = @ + 1, !.left = @ - 1]

WorkerRow(p) ==
    /\ flow # <<>>
    /\ flow.worker[p].pc = "reading"
    /\ flow.worker[p].left > 0
    /\ flow' = [flow EXCEPT !.worker[p] = PipeRow(@)]
    /\ FlowRest

\* processRow on a blank row or a row that validateRow rejects
WorkerSkip(p) ==
    /\ flow # <<>>
    /\ flow.worker[p].pc = "reading"
    /\ flow.worker[p].left > 0
    /\ flow' = [flow EXCEPT !.worker[p] =
                   [@ EXCEPT !.left = @ - 1, !.skippedRows = @ + 1]]
    /\ FlowRest

\* the INSERT of flushBatch resolves: the batch is emptied and the caller,
\* processRow or the end of streamInsertData, goes on
WorkerFlushDone(p) ==
    /\ flow # <<>>
    /\ flow.worker[p].pc \in {"flushing", "final"}
    /\ flow' = [flow EXCEPT !.worker[p] =
                   [@ EXCEPT !.batch = 0, !.writes = @ + 1,
                             !.pc = IF flow.worker[p].pc = "final"
                                    THEN "returned" ELSE "reading"]]
    /\ FlowRest

\* the INSERT of flushBatch is rejected: nothing in streamInsertData catches
WorkerFlushFails(p) ==
    /\ flow # <<>>
    /\ flow.worker[p].pc \in {"flushing", "final"}
    /\ flow' = [flow EXCEPT !.worker[p].pc = "raised"]
    /\ FlowRest

\* the reader reports done: the last flushBatch, which returns at once on an
\* empty batch
WorkerEnd(p) ==
    /\ flow # <<>>
    /\ flow.worker[p].pc = "reading"
    /\ flow.worker[p].left = 0
    /\ flow' = [flow EXCEPT !.worker[p].pc =
                   IF flow.worker[p].batch = 0 THEN "returned" ELSE "final"]
    /\ FlowRest

\* flush: nothing on an empty batch; else the batch is emptied and one more
\* write is chained after those already scheduled
ChainFlush(s) ==
    IF s.batch = 0 THEN s
    ELSE [s EXCEPT !.batch = 0, !.links = @ + 1]

\* lines 136-138
ScriptBegin ==
    /\ flow # <<>>
    /\ flow.script.pc = "begin"
    /\ flow' = [flow EXCEPT !.script =
                   [@ EXCEPT !.pc = "piping",
                             !.out = IF flow.script.useTransaction
                                     THEN <<"BEGIN">> ELSE <<>>]]
    /\ FlowRest

\* write() on a record with a finite Record ID: the callback is held until
\* the chain has resolved when the batch was flushed
ScriptPush(s) ==
    IF s.batch + 1 >= s.batchSize
    THEN [ChainFlush([s EXCEPT !.batch = @ + 1, !.left = @ - 1])
             EXCEPT !.held = TRUE]
    ELSE [s EXCEPT !.batch = @ + 1, !.left = @ - 1]

ScriptRow ==
    /\ flow # <<>>
    /\ flow.script.pc = "piping"
    /\ ~flow.script.held
    /\ flow.script.left > 0
    /\ flow' = [flow EXCEPT !.script = ScriptPush(@)]
    /\ FlowRest

\* write() on a record whose Record ID is not a finite number
ScriptSkipRow ==
    /\ flow # <<>>
    /\ flow.script.pc = "piping"
    /\ ~flow.script.held
    /\ flow.script.left > 0
    /\ flow' = [flow EXCEPT !.script =
                   [@ EXCEPT !.left = @ - 1, !.skipped = @ + 1]]
    /\ FlowRest

\* the links of the chain whose writeChunk may be called now: a link runs
\* when the link before it has resolved
ScriptMayWrite(s) == s.links > 0 /\ s.writing = 0

ScriptWriteStart ==
    /\ flow # <<>>
    /\ ScriptMayWrite(flow.script)
    /\ flow' = [flow EXCEPT !.script.writing = @ + 1]
    /\ FlowRest

\* writeChunk resolves: the statement is in the output, and a callback that
\* waited on the chain is called once the chain is empty
ScriptWriteDone ==
    /\ flow # <<>>
    /\ flow.script.writing > 0
    /\ flow' = [flow EXCEPT !.script =
                   [@ EXCEPT !.writing = @ - 1, !.links = @ - 1,
                             !.out = Append(@, "INSERT"),
                             !.held = flow.script.held
                                        /\ flow.script.links > 1]]
    /\ FlowRest

\* final(): flush, then wait on the chain
ScriptFinal ==
    /\ flow # <<>>
    /\ flow.script.pc = "piping"
    /\ ~flow.script.held
    /\ flow.script.left = 0
    /\ flow' = [flow EXCEPT !.script = [ChainFlush(@) EXCEPT !.pc = "final"]]
    /\ FlowRest

\* the chain has resolved: final's callback, the pipeline and line 183
ScriptPiped ==
    /\ flow # <<>>
    /\ flow.script.pc = "final"
    /\ flow.script.links = 0
    /\ flow' = [flow EXCEPT !.script.pc = "commit"]
    /\ FlowRest

\* lines 184-187
ScriptCommit ==
    /\ flow # <<>>
    /\ flow.script.pc = "commit"
    /\ flow' = [flow EXCEPT !.script =
                   [@ EXCEPT !.pc = "closed",
                             !.out = IF flow.script.useTransaction
                                     THEN Append(@, "COMMIT") ELSE @]]
    /\ FlowRest

NextFlow ==
    \/ \E p \in Pipes : WorkerRow(p)
    \/ \E p \in Pipes : WorkerSkip(p)
    \/ \E p \in Pipes : WorkerFlushDone(p)
    \/ \E p \in Pipes : WorkerFlushFails(p)
    \/ \E p \in Pipes : WorkerEnd(p)
    \/ ScriptBegin
    \/ ScriptRow
    \/ ScriptSkipRow
    \/ ScriptWriteStart
    \/ ScriptWriteDone
    \/ ScriptFinal
    \/ ScriptPiped
    \/ ScriptCommit

SpecFlow == InitFlow /\ [][NextFlow]_vars

-----------------------------------------------------------------------------
(* Claims on the decoder, checked under SpecDecode *)

\* C5: when the body has been read, the non-blank rows handed to processRow
\* are those handed when the whole text arrives as one chunk, whatever the
\* chunk boundaries were.
C5_ChunkingIndependent ==
    dpc = "done" =>
        dec.handed = StreamInsertData(<<text>>, tail, 0).handed

\* C5 witness: a body split between the two quotes of a doubled quote, read to
\* the end into one row.
C5_Witness ==
    /\ dpc = "done"
    /\ \E c \in cuts : text[c] = QUOTE /\ text[c + 1] = QUOTE /\ c > 1
    /\ dec.handed = <<text>>

\* the decoder has read a body that is one quoted field, delivered in full
FieldRead == dpc = "done" /\ field # <<>> /\ tail = <<>>

\* C6 as stated: a quoted field with a comma and a newline in it, split across
\* chunks, is decoded into one row with one cell whose value is the field's
\* value, comma and newline kept.
C6_Original ==
    (/\ FieldRead /\ cuts # {}
     /\ COMMA \in Range(field) /\ (LF \in Range(field) \/ CR \in Range(field))
     /\ QUOTE \notin Range(field))
    => /\ Len(dec.handed) = 1
       /\ dec.columns = <<field>>

\* C6 amended: such a field is decoded into one row with one cell, whose value
\* is the field's value trimmed: the comma is kept, and so is every newline or
\* carriage return that is not at either end of the value.
C6_QuotedFieldOneCell ==
    (/\ FieldRead /\ cuts # {}
     /\ COMMA \in Range(field) /\ (LF \in Range(field) \/ CR \in Range(field))
     /\ QUOTE \notin Range(field))
    => /\ Len(dec.handed) = 1
       /\ dec.columns = <<Trim(field)>>
       /\ COMMA \in Range(dec.columns[1])

\* C6 witness: the field ,<LF>a split inside the quotes, decoded to one cell
\* that still holds the comma and the newline.
C6_Witness ==
    /\ FieldRead
    /\ field = <<COMMA, LF, "a">>
    /\ text = QuotedField(field) \o <<LF>>
    /\ cuts = {2}
    /\ dec.columns = <<(<<COMMA, LF, "a">>)>>

\* C7: a field value with quotes in it, written with each quote doubled, is
\* decoded by the decoder and splitCsvLine to a cell with one quote per pair,
\* and the decoder is outside quotes when the field has ended.
C7_DoubledQuote ==
    (FieldRead /\ QUOTE \in Range(field))
    => /\ Len(dec.handed) = 1
       /\ dec.columns = <<Trim(field)>>
       /\ Cardinality({i \in DOMAIN dec.columns[1] : dec.columns[1][i] = QUOTE})
              = Cardinality({i \in DOMAIN field : field[i] = QUOTE})
       /\ ~dec.inQuotes

\* C7 witness: the cell "a""a" read to the end as a"a, the chunk boundary
\* between the two quotes of the pair.
C7_Witness ==
    /\ FieldRead
    /\ field = <<"a", QUOTE, "a">>
    /\ text = <<QUOTE, "a", QUOTE, QUOTE, "a", QUOTE>>
    /\ 3 \in cuts
    /\ dec.columns = <<(<<"a", QUOTE, "a">>)>>
    /\ ~dec.inQuotes

-----------------------------------------------------------------------------
(* Claims on the row step, checked under SpecRows *)

\* the records each variant has batched or written so far
WorkerRecords == Flatten(wk.writes) \o wk.batch
ScriptRecords == Flatten(sc.out) \o sc.batch

\* a Record ID cell that is missing, blank, non-numeric or not greater than zero
BadRecordId(cells) ==
    LET record == ParsedRecord(hdr, cells)
    IN  \/ ~Has(record, RecordId)
        \/ Trim(record[RecordId]) = <<>>
        \/ ~IsFinite(ToNumber(record[RecordId]))
        \/ ~IsPositive(ToNumber(record[RecordId]))

BadRows == {i \in DOMAIN fed : BadRecordId(fed[i])}

\* the worker's half of C8
WorkerSkipsBadRows ==
    rpc # "off" =>
        /\ wk.skippedRows = Cardinality(BadRows)
        /\ Len(WorkerRecords) = Len(fed) - Cardinality(BadRows)

\* C8 as stated: in both variants every data row with a missing, blank,
\* non-numeric or non-positive Record ID is counted as skipped and adds no
\* record to a batch or a bulk write.
C8_Original ==
    rpc # "off" =>
        /\ wk.skippedRows = Cardinality(BadRows)
        /\ Len(WorkerRecords) = Len(fed) - Cardinality(BadRows)
        /\ sc.skipped = Cardinality(BadRows)
        /\ Len(ScriptRecords) = Len(fed) - Cardinality(BadRows)

\* C9 as stated: every record the worker batches or writes carries a record_id
\* that is a positive integer.
C9_Original ==
    rpc # "off" =>
        \A i \in DOMAIN WorkerRecords :
            /\ IsPositive(WorkerRecords[i].recordId)
            /\ IsInteger(WorkerRecords[i].recordId)

-----------------------------------------------------------------------------
(* Claims on runIngest: overlapping calls under Spec, one call under SpecOne *)

\* runHealthChecks has returned to the call with passed = false: a failed
\* gate always carries a reason
GateFailed(r) == run[r].healthChecks.errors # <<>>
\* runHealthChecks has returned to the call with passed = true
GatePassed(r) == run[r].healthChecks.passed
\* the call is at the await that follows the return of runHealthChecks
GateDone(r) == run[r].pc \in {"activate", "rollback"}
\* the steps a call takes only after a gate that passed
Activating == {"activate", "metadata", "cleanup", "dropping", "returned"}

\* the first half of C1: a step that changes ingest:active_table is the put
\* of a call whose gate passed, and writes that call's newTableName
ActivationGuarded ==
    [][activeTable' # activeTable =>
          \E r \in Runs :
              /\ run[r].pc = "activate" /\ GatePassed(r)
              /\ activeTable' = run[r].newTableName]_vars

\* C1 as stated: the pointer is written only after the gate passed, and in no
\* reachable state does the pointer hold the id of a snapshot whose gate did
\* not pass in the call that created it.
C1_Original ==
    (Exists(tables, activeTable) /\ tables[activeTable].by \in Runs)
    => ~GateFailed(tables[activeTable].by)

\* C2 as stated: a call whose gate failed ends with the new table dropped, the
\* pointer and the metadata not written, no retention sweep, and the error
\* that lists the gate's reasons; the pointer holds what it held at the start.
C2_Original ==
    \A r \in Runs :
        (run[r].pc = "raised" /\ GateFailed(r))
        => /\ ~Exists(tables, run[r].newTableName)
           /\ run[r].error = HealthError(run[r].healthChecks.errors)
           /\ activeTable = run[r].previousTable
           /\ metadata = NoMetadata
           /\ run[r].cleanedUpTables = <<>>

\* C3 as stated: a call that accepted no data row raises and never writes the
\* pointer: it takes none of the steps that follow a gate that passed.
C3_Original ==
    \A r \in Runs :
        run[r].pc \in Activating => run[r].processedRows > 0

\* C4 as stated: no drop of the retention sweep removes the table that the
\* pointer names at the moment of the drop, whichever call wrote the pointer.
C4_Original ==
    [][\A r \in Runs :
          (run[r].pc = "dropping" /\ run'[r].cleanedUpTables # run[r].cleanedUpTables)
          => run'[r].cleanedUpTables[Len(run'[r].cleanedUpTables)] # activeTable]_vars

DropReason == "Row count dropped significantly"
CountReason == "Failed to count rows"

\* the table the call read from the pointer is one the gate can name
Countable(n) == n # NoTable /\ IsSnapshotName(n) /\ Exists(tables, n)

\* C10 as stated: with P > 0 rows counted in the snapshot read from the
\* pointer and N rows in the new snapshot, the gate gives the row-count-drop
\* reason exactly when N < 0.8 * P; with no pointer, a pointer that is no
\* snapshot name, a table that cannot be counted, or P = 0, it does not.
C10_Original ==
    \A r \in Runs :
        GateDone(r) =>
            LET hc == run[r].healthChecks
                N == CountRows(tables, run[r].newTableName)
            IN  /\ hc.previousRowCount > 0 =>
                    (DropReason \in Range(hc.errors) <=> 5 * N < 4 * hc.previousRowCount)
                /\ hc.previousRowCount <= 0 => DropReason \notin Range(hc.errors)
                /\ ~Countable(run[r].previousTable) => hc.previousRowCount = NoCount

\* C10 amended: N is the count the gate obtained for the new snapshot, which
\* is the table's row count, or 0 when that count query failed; the gate gives
\* the row-count-drop reason exactly when P > 0 was counted and N < 0.8 * P
\* (N = 0.8 * P passes), and never when the pointer is absent, is no snapshot
\* name, names a table that cannot be counted, or P = 0.
C10_RowCountDropGate ==
    \A r \in Runs :
        GateDone(r) =>
            LET hc == run[r].healthChecks
            IN  /\ hc.rowCount =
                       IF CountReason \in Range(hc.errors) THEN 0
                       ELSE CountRows(tables, run[r].newTableName)
                /\ hc.previousRowCount > 0 =>
                    (DropReason \in Range(hc.errors)
                        <=> 5 * hc.rowCount < 4 * hc.previousRowCount)
                /\ hc.previousRowCount <= 0 => DropReason \notin Range(hc.errors)
                /\ ~Countable(run[r].previousTable) => hc.previousRowCount = NoCount
                /\ hc.previousRowCount # NoCount =>
                    /\ Countable(run[r].previousTable)
                    /\ hc.previousRowCount = CountRows(tables, run[r].previousTable)

\* C10 witness: four rows loaded against a previous snapshot of five, exactly
\* 80%: the gate passes and the call goes on to write the pointer.
C10_Witness ==
    \E r \in Runs :
        /\ run[r].pc = "activate"
        /\ run[r].healthChecks.previousRowCount = 5
        /\ run[r].healthChecks.rowCount = 4
        /\ run[r].healthChecks.errors = <<>>


-----------------------------------------------------------------------------
(* Claims on the health gate's aggregation, checked under SpecOne *)

\* the reasons each check can push: the condition's and the caught error's
CheckReasons ==
    <<{"New table has 0 rows", "Failed to count rows"},
      {"Row count dropped significantly"},
      {"Sample DOI lookup returned no results", "Sample lookup failed"},
      {"Too many rows with both DOIs null", "NULL check failed"},
      {"Required indexes not found", "Index check failed"}>>

\* the reasons of check k in the errors of a result, in order
ReasonsOf(errors, k) == SelectSeq(errors, LAMBDA e : e \in CheckReasons[k])

\* check k failed, as the returned record tells it
CheckFailed(hc, k) ==
    CASE k = 1 -> hc.rowCount = 0
      [] k = 2 -> hc.previousRowCount > 0 /\ 5 * hc.rowCount < 4 * hc.previousRowCount
      [] k = 3 -> ~hc.sampleLookupPassed
      [] k = 4 -> ~hc.nullCheckPassed
      [] k = 5 -> ~hc.indexesCreated

\* C11: when runHealthChecks has returned, its errors hold exactly one reason
\* for every check that failed and none for a check that did not, whatever
\* failed or threw before it; every entry of errors is such a reason.
C11_AllChecksReported ==
    \A r \in Runs :
        GateDone(r) =>
            LET hc == run[r].healthChecks
            IN  /\ \A k \in 1..5 :
                    Len(ReasonsOf(hc.errors, k)) = (IF CheckFailed(hc, k) THEN 1 ELSE 0)
                /\ Range(hc.errors) \subseteq UNION Range(CheckReasons)

\* a gate whose count check failed, whose sample check failed and whose index
\* query threw: three reasons in one result
C11_Witness ==
    \E r \in Runs :
        /\ run[r].pc = "rollback"
        /\ run[r].healthChecks.errors =
             <<"New table has 0 rows", "Sample DOI lookup returned no results",
               "Index check failed">>

-----------------------------------------------------------------------------
(* Claims on fetchWithRetry, checked under SpecFetch and FairFetch *)

FetchEnded == fetcher.pc \in {"returned", "raised"}
LastServed == fetcher.served[Len(fetcher.served)]

\* what holds of the call at every moment
FetchSafe ==
    /\ fetcher.calls <= MAX_RETRIES
    /\ fetcher.calls = Len(fetcher.served)
    \* a fetch call is followed by another only when it gave 5xx, 429 or threw
    /\ \A i \in 1..(Len(fetcher.served) - 1) :
         fetcher.served[i].kind = "thrown" \/ Retryable(fetcher.served[i])
    \* any other response is returned after the attempt that received it
    /\ (fetcher.served # <<>> /\ LastServed.kind = "response" /\ ~Retryable(LastServed))
         => (fetcher.pc = "returned" /\ fetcher.result = LastServed)
    /\ fetcher.pc = "returned" => ~Retryable(fetcher.result)
    \* a wait is always followed by an attempt: none after the last attempt
    /\ fetcher.pc = "wait" => fetcher.calls < MAX_RETRIES
    /\ Len(fetcher.waits) = (IF fetcher.pc = "attempt" THEN fetcher.calls
                             ELSE fetcher.calls - 1)
    \* exhaustion: three failures, and the message of the last one
    /\ fetcher.pc = "raised" =>
         /\ fetcher.calls = MAX_RETRIES
         /\ fetcher.error = ExhaustedError(ErrorOf(LastServed))

\* C13: fetchWithRetry makes at most 3 fetch calls and always ends; it calls
\* fetch again only after a 5xx or 429 response or a thrown failure, returns
\* any other response at once, never waits after its last attempt, and on
\* exhaustion raises with the message of the last failure.
C13_FetchTerminates == []FetchSafe /\ <>FetchEnded

\* exhaustion after a thrown failure, a 429 and a 503: two waits, one error
C13_Witness ==
    /\ fetcher.pc = "raised"
    /\ fetcher.calls = 3
    /\ Len(fetcher.waits) = 2
    /\ fetcher.served[1] = NetworkFailure
    /\ fetcher.served[2].status = 429
    /\ fetcher.error = <<"CSV fetch failed after", "3", "attempts", "Server error", "503">>

-----------------------------------------------------------------------------
(* Claims on the fetch step of runIngest, checked under SpecOne *)

\* the run has raised out of its fetch step: exhaustion, or a response that
\* is not ok or has no body
RaisedAtFetch(r) ==
    /\ run[r].pc = "raised"
    /\ run[r].error # <<>>
    /\ Head(run[r].error) \in {"CSV fetch failed", "CSV fetch failed after"}

PastFetch ==
    {"create", "load", "index", "health", "activate", "metadata", "rollback",
     "cleanup", "dropping", "returned"}

\* C12: a run goes on to createTable only with an ok response that has a
\* body; when its fetch failed it has raised, and then no table bears its
\* name, the database is as it was, no row was written, and the pointer and
\* the metadata are as at run start.
C12_FetchFailureAborts ==
    \A r \in Runs :
        /\ (run[r].pc \in PastFetch \/ (run[r].pc = "raised" /\ ~RaisedAtFetch(r)))
             => (Ok(run[r].response) /\ run[r].response.body)
        /\ RaisedAtFetch(r) =>
             /\ ~Exists(tables, run[r].newTableName)
             /\ \E p \in 0..MaxPrev : tables = InitialTables(p)
             /\ run[r].processedRows = 0
             /\ activeTable = run[r].previousTable
             /\ metadata = NoMetadata

\* a run that raised on a body-less 200 response
C12_Witness ==
    \E r \in Runs :
        /\ RaisedAtFetch(r)
        /\ run[r].response = Response(200, FALSE, Null)
        /\ run[r].error = <<"CSV fetch failed", "200">>

\* a run that raised on exhaustion
C12_WitnessExhausted ==
    \E r \in Runs :
        /\ RaisedAtFetch(r)
        /\ run[r].error = <<"CSV fetch failed after", "3", "attempts", "Server error", "503">>

-----------------------------------------------------------------------------
(* Claims on the retention sweep of one run, checked under SpecOne *)

\* a drop of the run's sweep failed: names it went on to drop are left over
DropFailure(r) == run[r].pc \in {"returned", "raised"} /\ run[r].expired # {}

\* C14: a run whose sweep had a drop fail has returned, not raised; the
\* pointer and the metadata name its snapshot as written at activation;
\* cleanedUpTables holds exactly the tables its sweep dropped, and the
\* tables whose drop failed or was not reached are still there.
C14_SweepFailureHarmless ==
    \A r \in Runs :
        DropFailure(r) =>
            /\ run[r].pc = "returned"
            /\ run[r].error = <<>>
            /\ activeTable = run[r].newTableName
            /\ metadata.tableName = run[r].newTableName
            /\ metadata.rowCount = run[r].healthChecks.rowCount
            /\ \A n \in Range(run[r].cleanedUpTables) : ~Exists(tables, n)
            /\ \A n \in run[r].expired : Exists(tables, n)
            /\ \A n \in {OldTable, PrevTable} :
                 Exists(tables, n) \/ n \in Range(run[r].cleanedUpTables)

\* a sweep that dropped one expired snapshot and failed on the next
C14_Witness ==
    \E r \in Runs :
        /\ run[r].pc = "returned"
        /\ Len(run[r].cleanedUpTables) = 1
        /\ run[r].expired # {}

-----------------------------------------------------------------------------
(* Claims on what a caller of one run observes, checked under SpecOne *)

\* C15: when a run has raised, the pointer and the metadata hold what they
\* held at run start; when it has returned, both name its snapshot.
C15_Original ==
    \A r \in Runs :
        /\ run[r].pc = "raised" =>
             (activeTable = run[r].previousTable /\ metadata = NoMetadata)
        /\ run[r].pc = "returned" =>
             (activeTable = run[r].newTableName
              /\ metadata.tableName = run[r].newTableName)

-----------------------------------------------------------------------------
(* Claims on the table names sent to the database, checked under SpecRead *)

\* C16: every statement a run has issued with an interpolated table name
\* (CREATE TABLE, INSERT OR REPLACE, CREATE INDEX, the SELECTs of the health
\* gate, DROP TABLE) names a table entries_<14 digits>, and every SELECT of
\* the status lookup names such a table or the legacy table entries,
\* whatever the pointer and the table listing hold.
C16_OnlyValidatedNames ==
    /\ \A r \in Runs : \A s \in run[r].issued : IsSnapshotName(s.id)
    /\ \A s \in lookup.issued : IsSnapshotName(s.id) \/ s.id = LegacyTable

\* the pointer held a string that is no table name: the run's gate has run
\* on its new table, its sweep has listed entries_backup and dropped an
\* expired snapshot, and the lookup has refused the name
C16_Witness ==
    \E r \in Runs :
        /\ run[r].previousTable = JunkTable
        /\ run[r].pc = "returned"
        /\ Stmt("SELECT", run[r].newTableName) \in run[r].issued
        /\ Stmt("DROP TABLE", OldTable) \in run[r].issued
        /\ lookup.pc = "raised"
        /\ lookup.tableName = JunkTable
        /\ lookup.issued = {}

-----------------------------------------------------------------------------
(* Claims on the handler of /v1/ingest, checked under SpecHttp *)

\* the header carries the token: the token alone, or after a Bearer word of
\* any case and one or more blanks
Presents(authorization, token) ==
    \/ authorization = token
    \/ \E w \in BearerWords : \E k \in 1..(Len(authorization) - 1) :
         authorization = <<w>> \o Blanks(k) \o token

\* the request is a POST, INGEST_TOKEN is configured and the token matches
Authorised(q) ==
    /\ q.method = "POST"
    /\ q.ingestToken # Null
    /\ q.authorization # Null
    /\ Presents(q.authorization, q.ingestToken)

\* the status the three refusals are told apart by
RefusalStatus(q) ==
    IF q.method # "POST" THEN 405 ELSE IF q.ingestToken = Null THEN 403 ELSE 401

\* C17: runIngest has begun only for a request that is a POST, with
\* INGEST_TOKEN configured and the token of its Authorization header equal
\* to it, and for every such request it begins; every other request is
\* answered 405, 403 or 401 in this order of tests, with no run and the
\* database, the pointer and the metadata as they were.
C17_IngestAuthorised ==
    /\ run[1].pc # "idle" => Authorised(http.request)
    /\ (http.pc # "received" /\ Authorised(http.request)) => run[1].pc # "idle"
    /\ (http.pc # "received" /\ ~Authorised(http.request)) =>
         /\ http.pc = "answered"
         /\ http.status = RefusalStatus(http.request)
         /\ run[1] = IdleRun
         /\ <<activeTable, metadata, tables>> = http.before

\* a POST refused 401 for a token that is a proper prefix of the secret
C17_Witness ==
    /\ http.pc = "answered"
    /\ http.status = 401
    /\ http.request.authorization = <<"Bearer", SPACE, "s">>
    /\ http.request.ingestToken = <<"s", "x">>

\* a run begun by an authorised POST has activated its snapshot
C17_WitnessRun ==
    /\ http.pc = "answered"
    /\ http.status = 200
    /\ activeTable = run[1].newTableName

-----------------------------------------------------------------------------
(* Claims on the request quota, checked under SpecQuota *)

IpLimited(entry) == entry.ipLimit # 0

Refused429 ==
    /\ quota.answer.status = 429
    /\ quota.answer.type = quota.asked.type
    /\ quota.answer.retryAfter > 0

\* C18 (as amended): for requests handled one after another within one quota
\* window, a request is allowed exactly when it is among its client's first
\* `limit` requests of its type and, where an ipLimit is set, fewer than
\* `ipLimit` requests of that type from its IP have been allowed before it;
\* so a client is allowed at most its first `limit` requests and the requests
\* sharing one IP at most `ipLimit` in total.  Every other request is
\* answered 429 with the request type and a retryAfter greater than 0, and is
\* not served.
C18_QuotaGate ==
    (quota # <<>> /\ quota.count > 0) =>
        /\ quota.answer.served <=>
              /\ quota.asked.nth <= quota.asked.entry.limit
              /\ IpLimited(quota.asked.entry) =>
                     quota.asked.before < quota.asked.entry.ipLimit
        /\ ~quota.answer.served => Refused429
        /\ \A k \in QuotaKeys :
              (k[2] = "ip" /\ IpLimited(quota.config[k[1]])) =>
                  quota.allowed[k] <= quota.config[k[1]].ipLimit

\* A client's second request is refused because its IP has used up ipLimit.
C18_Witness ==
    /\ quota # <<>>
    /\ quota.answer.scope = "ip"
    /\ quota.asked.nth = 2
    /\ quota.asked.nth <= quota.asked.entry.limit
    /\ Refused429

\* C18 as stated: a client is allowed exactly its first `limit` requests.
C18_Original ==
    (quota # <<>> /\ quota.count > 0) =>
        (quota.answer.served <=> quota.asked.nth <= quota.asked.entry.limit)

-----------------------------------------------------------------------------
(* Claims on the snapshot names of overlapping runs, checked under Spec *)

\* The tables a run's load or rollback has issued statements against.
LoadTargets(r) ==
    { s.id : s \in { i \in run[r].issued :
                        /\ i.stmt \in {"CREATE TABLE", "INSERT OR REPLACE",
                                       "CREATE INDEX", "DROP TABLE"}
                        /\ i.id = run[r].newTableName } }

\* C19: each ingest run creates a distinctly named snapshot, so two runs
\* never issue CREATE, INSERT OR REPLACE, CREATE INDEX or DROP statements
\* against the same snapshot table, and one run's load or rollback cannot
\* alter another run's snapshot.
C19_Original ==
    \A r1 \in Runs, r2 \in Runs :
        r1 # r2 => LoadTargets(r1) \cap LoadTargets(r2) = {}

-----------------------------------------------------------------------------
(* Claims on the summary of a single run, checked under SpecOne *)

SummaryConsistent(r) ==
    /\ activeTable' = run'[r].newTableName
    /\ metadata'.tableName = run'[r].newTableName
    /\ metadata'.rowCount = run'[r].healthChecks.rowCount
    /\ run'[r].healthChecks.passed

\* C20: after a run that is the only run executing returns its summary, the
\* active pointer equals the summary's tableName, the stored metadata has
\* tableName equal to that id and rowCount equal to healthChecks.rowCount,
\* healthChecks.passed is true, and previousTable equals the pointer value
\* read at run start (it is set from the pointer by the first read and never
\* changes afterwards).
C20_ReturnedSummary ==
    [][\A r \in Runs :
          /\ (run[r].pc = "pointer" /\ run'[r].pc # "pointer") =>
                 run'[r].previousTable = activeTable
          /\ run[r].pc \notin {"idle", "pointer"} =>
                 run'[r].previousTable = run[r].previousTable
          /\ run'[r].pc = "returned" => SummaryConsistent(r)]_vars

\* A run returned after replacing a previous snapshot of another size.
C20_Witness ==
    \E r \in Runs :
        /\ run[r].pc = "returned"
        /\ run[r].previousTable = PrevTable
        /\ activeTable = run[r].newTableName
        /\ metadata.rowCount = run[r].healthChecks.rowCount
        /\ run[r].healthChecks.previousRowCount # run[r].healthChecks.rowCount

-----------------------------------------------------------------------------
(* Claims on the verdict of the health gate, checked under SpecOne *)

\* what the snapshot of a run holds when its gate has returned
BothNull(r) ==
    Cardinality({id \in DOMAIN tables[run[r].newTableName].rows :
                    /\ tables[run[r].newTableName].rows[id].orig = Null
                    /\ tables[run[r].newTableName].rows[id].retr = Null})

SnapshotSound(r) ==
    /\ Exists(tables, run[r].newTableName)
    /\ CountRows(tables, run[r].newTableName) > 0
    /\ \E id \in DOMAIN tables[run[r].newTableName].rows :
           tables[run[r].newTableName].rows[id].orig # Null
    /\ 2 * BothNull(r) < CountRows(tables, run[r].newTableName)
    /\ Cardinality(tables[run[r].newTableName].idx) >= 2

\* the row-count-drop check recorded a failure: it counted the previous
\* snapshot and the new count is below 80% of it
DropRecorded(r) ==
    /\ PreviousChecked(run[r].previousTable)
    /\ Exists(tables, run[r].previousTable)
    /\ 2 \notin run[r].threw
    /\ CountRows(tables, run[r].previousTable) > 0
    /\ 5 * CountRows(tables, run[r].newTableName)
           < 4 * CountRows(tables, run[r].previousTable)

-----------------------------------------------------------------------------
(* Claims on the waits of fetchWithRetry, checked under SpecFetch *)

\* the seconds a failed attempt's Retry-After header asks for, 0 when it
\* carries none or no positive integer
RetryAfterSeconds(o) ==
    IF o.kind = "response" /\ Retryable(o) /\ o.retryAfter # Null
       /\ ParseInt(o.retryAfter).finite /\ ParseInt(o.retryAfter).num > 0
    THEN ParseInt(o.retryAfter).num
    ELSE 0

RECURSIVE Doubled(_, _)
Doubled(ms, times) == IF times = 0 THEN ms ELSE Doubled(2 * ms, times - 1)

\* C22: the wait before retry attempt k+1 is 1000 ms doubled k-1 times
\* (1000 ms, then 2000 ms) unless the failed response of attempt k carried a
\* Retry-After header with a positive integer of seconds, in which case that
\* wait is exactly that many seconds; a Retry-After value overrides only the
\* wait before the next attempt, not the waits after it.
C22_Original ==
    \A k \in 1..Len(fetcher.waits) :
        fetcher.waits[k] =
            IF RetryAfterSeconds(fetcher.served[k]) > 0
            THEN RetryAfterSeconds(fetcher.served[k]) * 1000
            ELSE Doubled(INITIAL_RETRY_DELAY_MS, k - 1)

-----------------------------------------------------------------------------
(* Claims on the end of the stream, checked under SpecDecode *)

\* the logical rows of a text, told from the text alone: a quote toggles
\* quoted mode, a newline or carriage return outside quotes ends a row, and
\* what is left at the end is a row when it is not empty
RECURSIVE LogicalRows(_, _, _)
LogicalRows(t, row, quoted) ==
    IF t = <<>> THEN (IF row # <<>> THEN <<row>> ELSE <<>>)
    ELSE IF Head(t) = QUOTE
         THEN LogicalRows(Tail(t), Append(row, QUOTE), ~quoted)
    ELSE IF ~quoted /\ Head(t) \in {LF, CR}
         THEN <<row>> \o LogicalRows(Tail(t), <<>>, quoted)
    ELSE LogicalRows(Tail(t), Append(row, Head(t)), quoted)

NonBlank(rows) == SelectSeq(rows, LAMBDA row : Trim(row) # <<>>)

CellsOf(rows) == [k \in DOMAIN rows |-> SplitCsvLine(rows[k])]

\* what the read loop yields on the same input followed by a newline
WithNewline == StreamInsertData(<<text \o tail \o <<LF>>>>, <<>>, 0)

\* C23: at end of stream a non-empty remaining buffer is processed as the
\* final row exactly once: the rows handed to processRow are the logical rows
\* of the input, each once; an input whose last row has no trailing newline
\* yields the same rows (cell for cell, with the same counters) as the same
\* input with a trailing newline; and the row buffer is empty when
\* streamInsertData returns.
C23_FinalRowOnce ==
    dpc = "done" =>
        /\ dec.currentRow = <<>>
        /\ dec.handed = NonBlank(LogicalRows(text \o tail, <<>>, FALSE))
        /\ CellsOf(dec.handed) = CellsOf(WithNewline.handed)
        /\ dec.columns = WithNewline.columns
        /\ dec.rowNumber = WithNewline.rowNumber
        /\ dec.processedRows = WithNewline.processedRows
        /\ dec.skippedRows = WithNewline.skippedRows
        /\ dec.writes = WithNewline.writes

\* a header and a last row without newline, delivered in two chunks that cut
\* the last row
C23_Witness ==
    /\ dpc = "done"
    /\ tail = <<>>
    /\ Len(text) = MaxLen
    /\ text[Len(text)] \notin {LF, CR}
    /\ Len(dec.handed) = 2
    /\ Len(text) - 1 \in cuts
    /\ dec.rowNumber = 1

-----------------------------------------------------------------------------
(* Claims on the counters of streamInsertData, checked under SpecRows *)

\* rows that are empty or hold blanks only
BlankRows == {<<>>, <<SPACE>>, <<"\t", SPACE>>, <<CR>>}

\* C24: after every processed row, processedRows + skippedRows equals the
\* number of non-blank rows seen after the header (and so does rowNumber);
\* the header row and blank rows are counted in neither, before or after the
\* header; a rejected row is counted and the next row is processed, so the
\* counters reach the end of the input.
C24_CounterInvariant ==
    /\ wk.processedRows + wk.skippedRows = Len(fed)
    /\ wk.rowNumber = Len(fed)
    /\ Len(wk.handed) = Len(fed) + 1
    /\ wk.hasColumns /\ wk.columns = SplitCsvLine(JoinCells(hdr))
    /\ \A blank \in BlankRows :
         /\ ProcessRow(wk, blank) = wk
         /\ ProcessRow(StreamInit(0), blank) = StreamInit(0)

\* the input ended after a rejected row followed by an accepted one
C24_Witness ==
    /\ rpc = "done"
    /\ Len(fed) = 2
    /\ wk.skippedRows = 1
    /\ wk.processedRows = 1
    /\ Flatten(wk.writes)[1].raw = ParsedRecord(hdr, fed[2])

-----------------------------------------------------------------------------
(* Claims on the batches of the worker ingest, checked under SpecBatch *)

\* C25: every bulk INSERT OR REPLACE issued by the worker ingest carries at
\* least 1 and at most 250 records; the pending batch holds fewer than 250
\* records whenever row processing returns; a flush with an empty batch
\* issues no statement; a flush happens only when the batch reaches 250 (so
\* every statement issued before the end of input carries exactly 250) or at
\* end of input.
C25_BatchBound ==
    /\ \A k \in DOMAIN wk.writes :
         /\ Len(wk.writes[k]) >= 1
         /\ Len(wk.writes[k]) <= BATCH_SIZE
         /\ (k < Len(wk.writes) \/ rpc = "rows") => Len(wk.writes[k]) = BATCH_SIZE
    /\ Len(wk.batch) < BATCH_SIZE
    /\ rpc = "rows" =>
         /\ Len(wk.writes) = wk.processedRows \div BATCH_SIZE
         /\ Len(wk.batch) = wk.processedRows % BATCH_SIZE
    /\ rpc = "done" =>
         /\ wk.batch = <<>>
         /\ Len(wk.writes) = (wk.processedRows + BATCH_SIZE - 1) \div BATCH_SIZE

\* the batch filled and was written, one more record came, the input ended
C25_Witness ==
    /\ rpc = "done"
    /\ Len(wk.writes) = 2
    /\ Len(wk.writes[1]) = BATCH_SIZE
    /\ Len(wk.writes[2]) = 1

\* the batch filled with the last row: the flush at end of input wrote nothing
C25_WitnessEmptyFlush ==
    /\ rpc = "done"
    /\ wk.processedRows = BATCH_SIZE
    /\ Len(wk.writes) = 1

-----------------------------------------------------------------------------
(* Claims on the order of the records written, checked under SpecBatch *)

\* the rows processed before the first row of fed
Earlier == wk.rowNumber - Len(fed)

\* what each variant makes of one row, taken alone: no record or one
WorkerRowRecords(cells) == ProcessRow(WorkerHeaded(hdr), JoinCells(cells)).batch
ScriptRowRecords(cells) == ScriptWrite(ScriptInit(0), ParsedRecord(hdr, cells)).batch

RECURSIVE WorkerAccepted(_)
WorkerAccepted(rows) ==
    IF rows = <<>> THEN <<>>
    ELSE WorkerRowRecords(Head(rows)) \o WorkerAccepted(Tail(rows))

RECURSIVE ScriptAccepted(_)
ScriptAccepted(rows) ==
    IF rows = <<>> THEN <<>>
    ELSE ScriptRowRecords(Head(rows)) \o ScriptAccepted(Tail(rows))

\* the records of the rows 1..BATCH_SIZE - 1, each row taken alone
EarlierWorkerRecords ==
    [i \in 1..(BATCH_SIZE - 1) |->
        ProcessRow(WorkerHeaded(<<RecordId, OriginalPaperDOI>>),
                   JoinCells(EarlierRow(i))).batch[1]]

EarlierScriptRecords ==
    [i \in 1..(BATCH_SIZE - 1) |-> ScriptRecord(<<RecordId, OriginalPaperDOI>>, i)]

\* C26: no accepted record is lost, duplicated or reordered by batching: when
\* streamInsertData returns, the concatenation of the record lists of all
\* bulk writes issued, in issue order, equals the sequence of accepted
\* records in stream order, and the pending batch is empty; the same holds of
\* the statements the csv-to-sql script has written when its input ends.
C26_WritesInStreamOrder ==
    rpc = "done" =>
        /\ Flatten(wk.writes) =
              SubSeq(EarlierWorkerRecords, 1, Earlier) \o WorkerAccepted(fed)
        /\ wk.batch = <<>>
        /\ Flatten(sc.out) =
              SubSeq(EarlierScriptRecords, 1, Earlier) \o ScriptAccepted(fed)
        /\ sc.batch = <<>>

\* two bulk writes: the second holds the record of the last row alone
C26_Witness ==
    /\ rpc = "done"
    /\ Len(wk.writes) = 2
    /\ Len(fed) = 2
    /\ WorkerRowRecords(fed[1]) # <<>>
    /\ WorkerRowRecords(fed[2]) # <<>>
    /\ wk.writes[2] = WorkerRowRecords(fed[2])

-----------------------------------------------------------------------------
(* Claims on the bulk writes in flight, checked under SpecFlow *)

\* a bulk write of pipeline p is in flight
InFlight(p) == flow.worker[p].pc \in {"flushing", "final"}

\* the statements of the script's output in order: BEGIN first and COMMIT
\* last when a transaction is used, INSERTs between them
ScriptOutShaped ==
    LET s == flow.script
        n == Len(s.out)
    IN  /\ \A i \in 1..n : s.out[i] = "BEGIN" <=> (s.useTransaction /\ i = 1)
        /\ \A i \in 1..n : s.out[i] = "COMMIT" => (i = n /\ s.pc = "closed")
        /\ s.pc = "closed" /\ s.useTransaction => n >= 1 /\ s.out[n] = "COMMIT"
        /\ s.pc # "begin" /\ s.useTransaction => n >= 1 /\ s.out[1] = "BEGIN"

\* within one call of streamInsertData and within the script: a step taken
\* while a write is pending decodes and batches nothing, and the script never
\* has two writeChunk calls running
OnePipelineSerial ==
    [][ /\ \A p \in Pipes :
             InFlight(p) =>
                 /\ flow'.worker[p].left = flow.worker[p].left
                 /\ flow'.worker[p].batch \in {flow.worker[p].batch, 0}
                 /\ flow'.worker[p].skippedRows = flow.worker[p].skippedRows
        /\ flow.script.links > 0 =>
                 /\ flow'.script.left = flow.script.left
                 /\ flow'.script.batch = flow.script.batch
                 /\ flow'.script.links <= flow.script.links
        /\ flow'.script.writing <= 1
        /\ flow'.script.links <= 1 ]_vars

ScriptSerial == flow.script.writing <= 1 /\ ScriptOutShaped

\* C27: at most one bulk write is in flight at any time for a snapshot: two
\* pipelines never have an INSERT pending against the same snapshot table,
\* and the script's chain runs one write at a time between BEGIN and COMMIT.
C27_Original ==
    /\ \A p, q \in Pipes :
         p # q /\ InFlight(p) /\ InFlight(q) =>
             flow.worker[p].tableName # flow.worker[q].tableName
    /\ ScriptSerial

-----------------------------------------------------------------------------
(* Claims on the rows of the loaded snapshot, checked under SpecBatch *)

\* the bulk writes that were stored: a write that binds a record_id which is
\* no integer is refused, the load raises there and issues no further write
RefusedWrites == {i \in DOMAIN wk.writes : ~Storable(wk.writes[i])}
StoredWrites ==
    IF RefusedWrites = {} THEN wk.writes
    ELSE SubSeq(wk.writes, 1, (CHOOSE i \in RefusedWrites :
                                  \A j \in RefusedWrites : i <= j) - 1)

\* the table after the records of the earlier rows alone: row i has the
\* Record ID i, so no record replaces another
EarlierSnapshot ==
    [p \in EarlierRows |->
        [k \in 1..p |->
            [orig |-> EarlierWorkerRecords[k].doiOriginal,
             retr |-> EarlierWorkerRecords[k].doiRetraction,
             raw |-> EarlierWorkerRecords[k].raw,
             updatedAt |-> EarlierWorkerRecords[k].updatedAt]]]

\* the rows of the snapshot table after the stored writes: the first write
\* begins with the records of the earlier rows
SnapshotRows ==
    IF StoredWrites = <<>> THEN <<>>
    ELSE LET all == Flatten(StoredWrites)
         IN  Upsert(EarlierSnapshot[Earlier], SubSeq(all, Earlier + 1, Len(all)))

\* the accepted records of the run in stream order, their ids, and the last
\* record of an id
RecordKey(e) == e.recordId.num \div e.recordId.den
AcceptedFed == WorkerAccepted(fed)
AcceptedIds(late) == (1..Earlier) \cup {RecordKey(late[i]) : i \in DOMAIN late}
LastAccepted(late, k) ==
    LET same == {i \in DOMAIN late : RecordKey(late[i]) = k}
    IN  IF same = {} THEN EarlierWorkerRecords[k]
        ELSE late[CHOOSE i \in same : \A j \in same : j <= i]
Contents(e) ==
    [orig |-> e.doiOriginal, retr |-> e.doiRetraction, raw |-> e.raw,
     updatedAt |-> e.updatedAt]

\* C28: upsert semantics.  When the load has returned with every bulk write
\* stored, each accepted row was counted in processedRows whether or not its
\* record_id had occurred before, the snapshot holds exactly one record for
\* each accepted record_id, with the contents of the last accepted row of
\* that id in stream order, and so its row count is the number of distinct
\* accepted ids and at most processedRows.
C28_UpsertLastWins ==
    rpc = "done" /\ RefusedWrites = {} =>
        \E snapshot \in {SnapshotRows}, late \in {AcceptedFed} :
            /\ wk.processedRows = Earlier + Len(late)
            /\ snapshot = [k \in AcceptedIds(late) |->
                              Contents(LastAccepted(late, k))]
            /\ Cardinality(DOMAIN snapshot) = Cardinality(AcceptedIds(late))
            /\ Cardinality(DOMAIN snapshot) <= wk.processedRows

\* two accepted rows of one id and different contents, written by two bulk
\* writes: one record, that of the second row
C28_Witness ==
    /\ rpc = "done" /\ RefusedWrites = {}
    /\ Len(wk.writes) = 2
    /\ Len(AcceptedFed) = 2
    /\ RecordKey(AcceptedFed[1]) = RecordKey(AcceptedFed[2])
    /\ AcceptedFed[1].raw # AcceptedFed[2].raw
    /\ \E snapshot \in {SnapshotRows} :
         /\ snapshot[RecordKey(AcceptedFed[2])] = Contents(AcceptedFed[2])
         /\ Cardinality(DOMAIN snapshot) = Earlier
         /\ wk.processedRows = Earlier + 2

\* an accepted row replaces the record of an earlier row of the same id
C28_WitnessReplacesEarlier ==
    /\ rpc = "done" /\ RefusedWrites = {}
    /\ Len(AcceptedFed) = 1
    /\ RecordKey(AcceptedFed[1]) = 10
    /\ SnapshotRows[10] # Contents(EarlierWorkerRecords[10])
    /\ Cardinality(DOMAIN SnapshotRows) = wk.processedRows - 1

\* an accepted record_id that is no integer: the write is refused
C28_WitnessRefused ==
    rpc = "done" /\ RefusedWrites # {} /\ DOMAIN SnapshotRows # AcceptedIds(AcceptedFed)

-----------------------------------------------------------------------------
(* Claims on the order of the phases of one run, checked under SpecOne *)

\* the awaits that may follow an await of runIngest
PhaseAfter(pc) ==
    CASE pc = "idle" -> {"pointer"}
      [] pc = "pointer" -> {"fetch"}
      [] pc = "fetch" -> {"create", "raised"}
      [] pc = "create" -> {"load", "raised"}
      [] pc = "load" -> {"index", "raised"}
      [] pc = "index" -> {"health", "raised"}
      [] pc = "health" -> {"activate", "rollback"}
      [] pc = "activate" -> {"metadata", "raised"}
      [] pc = "metadata" -> {"cleanup", "raised"}
      [] pc = "rollback" -> {"raised"}
      [] pc = "cleanup" -> {"dropping", "returned"}
      [] pc = "dropping" -> {"dropping", "returned"}
      [] OTHER -> {}

Issued(r, stmt) == {s \in run[r].issued : s.stmt = stmt}
NewlyIssued(r, stmt) == {s \in run'[r].issued \ run[r].issued : s.stmt = stmt}

\* one step of run r keeps the order of the phases
PhaseStep(r) ==
    /\ run'[r].pc \in PhaseAfter(run[r].pc)
    \* a bulk write is issued by the load alone, before any index statement
    /\ NewlyIssued(r, "INSERT OR REPLACE") # {} =>
           run[r].pc = "load" /\ Issued(r, "CREATE INDEX") = {}
    \* the indexes are created after the load has returned
    /\ NewlyIssued(r, "CREATE INDEX") # {} => run[r].pc = "index"
    \* the checks start after createIndexes has returned
    /\ NewlyIssued(r, "SELECT") # {} =>
           run[r].pc = "health" /\ Issued(r, "CREATE INDEX") # {}
    \* the pointer is written after the five checks, all passed
    /\ activeTable' # activeTable =>
           /\ run[r].pc = "activate"
           /\ run[r].healthChecks # NoHealth /\ run[r].healthChecks.passed
           /\ HealthStatements(run[r].newTableName, run[r].previousTable)
                  \subseteq run[r].issued
           /\ activeTable' = run[r].newTableName
    \* the metadata follows the pointer, the sweep follows both
    /\ metadata' # metadata =>
           run[r].pc = "metadata" /\ activeTable = run[r].newTableName
    /\ run'[r].pc \in {"cleanup", "dropping"} =>
           activeTable' = run[r].newTableName /\ metadata'.tableName = run[r].newTableName
    \* a table leaves by the rollback, which raises, or by the sweep
    /\ DOMAIN tables' # DOMAIN tables =>
           \/ run[r].pc = "create"
           \/ run[r].pc = "rollback" /\ run'[r].pc = "raised"
                 /\ DOMAIN tables' = DOMAIN tables \ {run[r].newTableName}
           \/ run[r].pc = "dropping" /\ run[r].newTableName \in DOMAIN tables'

\* C29: the phases of one run follow each other in the order read pointer,
\* fetch, create table, load, create indexes, health checks, then activation
\* and retention sweep or drop and raise; no index statement before the load
\* has returned, no health query before createIndexes has returned, and no
\* write of the pointer before the five checks have completed.
C29_PhaseOrder ==
    [][\A r \in Runs : run'[r] # run[r] => PhaseStep(r)]_vars

\* a run that activated and then swept an old snapshot
C29_Witness ==
    \E r \in Runs :
        /\ run[r].pc = "returned"
        /\ run[r].cleanedUpTables # <<>>
        /\ activeTable = run[r].newTableName
        /\ Issued(r, "INSERT OR REPLACE") # {}
        /\ Issued(r, "CREATE INDEX") # {}

\* a run whose gate failed: the drop, then the raise
C29_WitnessRollback ==
    \E r \in Runs :
        /\ run[r].pc = "raised"
        /\ run[r].healthChecks # NoHealth /\ ~run[r].healthChecks.passed
        /\ Issued(r, "DROP TABLE") # {}
        /\ activeTable # run[r].newTableName

-----------------------------------------------------------------------------
(* Claims on a failed index creation, checked under SpecOne *)

\* createIndexes of run r has returned false
IndexesFailed(r) ==
    /\ run[r].pc \notin {"idle", "pointer", "fetch", "create", "load", "index"}
    /\ Issued(r, "CREATE INDEX") # {}
    /\ ~run[r].indexesCreated

\* the snapshot of run r lacks one of the two DOI indexes
LacksIndex(db, r) ==
    Exists(db, run[r].newTableName) /\ db[run[r].newTableName].idx # BothIndexes

IndexErrors == {"Required indexes not found", "Index check failed"}

\* C30: when index creation fails, createIndexes returns false without
\* raising and without dropping the table, and the run goes on to the health
\* gate; the gate then fails with the error of the index check; a snapshot
\* that lacks either DOI index is never activated, and it leaves the database
\* by the drop of the rollback alone.
C30_IndexFailure ==
    [][\A r \in Runs :
         \* the step of createIndexes that fails
         /\ run[r].pc = "index" /\ run'[r].pc # "index" /\ ~run'[r].indexesCreated =>
                /\ run'[r].pc = "health"
                /\ run'[r].error = <<>>
                /\ DOMAIN tables' = DOMAIN tables
                /\ tables'[run[r].newTableName].rows = tables[run[r].newTableName].rows
                /\ LacksIndex(tables', r)
         \* the gate after it
         /\ run[r].pc = "health" /\ run'[r].pc # "health" /\ IndexesFailed(r) =>
                /\ run'[r].pc = "rollback"
                /\ ~run'[r].healthChecks.passed
                /\ ~run'[r].healthChecks.indexesCreated
                /\ Range(run'[r].healthChecks.errors) \cap IndexErrors # {}
         \* no activation of a snapshot that lacks an index
         /\ activeTable' # activeTable /\ activeTable' = run[r].newTableName =>
                ~LacksIndex(tables, r) /\ Exists(tables, run[r].newTableName)
         \* the snapshot that lacks an index is dropped by the rollback alone
         /\ LacksIndex(tables, r) /\ ~Exists(tables', run[r].newTableName) =>
                run[r].pc = "rollback" /\ run'[r].pc = "raised"
      ]_vars

\* the second CREATE INDEX failed on a snapshot that is sound otherwise: the
\* gate has failed on the index check alone and the rollback is next
C30_Witness ==
    \E r \in Runs :
        /\ run[r].pc = "rollback"
        /\ IndexesFailed(r)
        /\ tables[run[r].newTableName].idx = {"doi_original"}
        /\ run[r].healthChecks.errors = <<"Required indexes not found">>
        /\ run[r].healthChecks.rowCount > 0
        /\ activeTable # run[r].newTableName

\* the snapshot without indexes has been dropped by the rollback
C30_WitnessDropped ==
    \E r \in Runs :
        /\ run[r].pc = "raised"
        /\ IndexesFailed(r)
        /\ ~Exists(tables, run[r].newTableName)
        /\ Issued(r, "DROP TABLE") # {}
        /\ Head(run[r].error) = "Ingest health checks failed"

-----------------------------------------------------------------------------
(* Claims on overlapping runs, checked under Spec *)

\* run r performs its write of the pointer in this step
PointerWrite(r) == run[r].pc = "activate" /\ run'[r].pc = "metadata"

\* C31: with two runs executing concurrently, the pointer is whatever the
\* last pointer write put there: every pointer write of a run that passed
\* the gate sets the pointer to that run's snapshot, whatever it held and
\* whichever run started first, and nothing else changes the pointer.
C31_LastWriteWins ==
    [][ /\ \A r \in Runs :
             PointerWrite(r) =>
                 run[r].healthChecks.passed /\ activeTable' = run[r].newTableName
        /\ activeTable' # activeTable => \E r \in Runs : PointerWrite(r)
      ]_vars

\* both runs passed the gate and returned, and the pointer has ended on the
\* snapshot with the older timestamp: the run that started first wrote last
C31_Witness ==
    \E r, q \in Runs :
        /\ run[r].pc = "returned" /\ run[q].pc = "returned"
        /\ run[r].healthChecks.passed /\ run[q].healthChecks.passed
        /\ ParseTableTimestamp(run[r].newTableName)
               < ParseTableTimestamp(run[q].newTableName)
        /\ activeTable = run[r].newTableName

-----------------------------------------------------------------------------
(* Claims on the two writes of the activation, checked under SpecTwo *)

\* run r performs its write of the metadata in this step
MetadataWrite(r) == run[r].pc = "metadata" /\ run'[r].pc = "cleanup"

\* C32: activation is two separate key-value writes, the pointer first and
\* the metadata second: no step writes both, a run writes the metadata of
\* its own snapshot in a later step than its pointer, and the other run may
\* write in between.
C32_TwoWrites ==
    [][ /\ ~(activeTable' # activeTable /\ metadata' # metadata)
        /\ \A r \in Runs :
             /\ PointerWrite(r) => metadata' = metadata
             /\ MetadataWrite(r) =>
                    /\ activeTable' = activeTable
                    /\ metadata'.tableName = run[r].newTableName
                    /\ metadata'.rowCount = run[r].healthChecks.rowCount
        /\ metadata' # metadata => \E r \in Runs : MetadataWrite(r)
      ]_vars

\* both runs passed and returned; the pointer names one run's snapshot, the
\* metadata carries the name and the row count of the other's
C32_Witness ==
    \E r, q \in Runs :
        /\ run[r].pc = "returned" /\ run[q].pc = "returned"
        /\ run[r].healthChecks.passed /\ run[q].healthChecks.passed
        /\ run[r].newTableName # run[q].newTableName
        /\ run[r].healthChecks.rowCount # run[q].healthChecks.rowCount
        /\ activeTable = run[r].newTableName
        /\ metadata.tableName = run[q].newTableName
        /\ metadata.rowCount = run[q].healthChecks.rowCount

-----------------------------------------------------------------------------
(* Claims on promoted snapshots, checked under Spec *)

\* run q has written its snapshot id to the pointer
Promoted(q) == run[q].pc \in {"metadata", "cleanup", "dropping", "returned"}

\* in this step run r sends a bulk write or an index statement against the
\* table n, or drops it in its rollback
Mutates(r, n) ==
    \/ Stmt("INSERT OR REPLACE", n) \in run'[r].issued \ run[r].issued
    \/ Stmt("CREATE INDEX", n) \in run'[r].issued \ run[r].issued
    \/ /\ run[r].pc = "rollback" /\ run[r].newTableName = n
       /\ Stmt("DROP TABLE", n) \in run'[r].issued

\* the same, for runs whose snapshot names differ
DistinctNamesImmutable ==
    [][\A q, r \in Runs :
          Promoted(q) /\ run[q].newTableName # run[r].newTableName
              => ~Mutates(r, run[q].newTableName)]_vars

\* C33: a snapshot is immutable once promoted: after a run has written its
\* snapshot id to the pointer, no step of any run sends a bulk write or an
\* index statement against that table or drops it in a rollback.
C33_Original ==
    [][\A q, r \in Runs : Promoted(q) => ~Mutates(r, run[q].newTableName)]_vars

-----------------------------------------------------------------------------
(* Claims on the retention sweep, checked under Spec *)

\* run r is inside cleanupOldTables
Sweeping(r) == run[r].pc \in {"cleanup", "dropping"}

\* the tables that leave the database in this step
DroppedNow == DOMAIN tables \ DOMAIN tables'

\* C34: every table the sweep drops has a snapshot name whose timestamp is
\* earlier than the time the sweep began minus 7 days; a snapshot younger
\* than that and a table whose name is no snapshot name (the legacy table
\* entries, entries_backup) is never dropped by the sweep; and the sweep runs
\* only in a run that has written its pointer and its metadata.
C34_SweepDropsOldSnapshots ==
    [][\A r \in Runs :
         \* the sweep begins: the cutoff is the time of the call minus 7 days
         /\ run[r].pc = "cleanup" /\ run'[r] # run[r] =>
                run'[r].cutoffDate = clock - 7 * 86400
         /\ Sweeping(r) /\ run'[r] # run[r] =>
                \A n \in DroppedNow :
                    /\ n.pre = "entries_" /\ n.ts >= 0
                    /\ n.ts < run[r].cutoffDate
                    /\ run[r].cutoffDate <= clock - 7 * 86400
                    /\ n # run[r].newTableName
                    /\ n \notin {LegacyTable, BackupTable}
         \* cleanupOldTables is entered after both writes of the activation
         /\ ~Sweeping(r) /\ Sweeping(r)' =>
                /\ run[r].pc = "metadata"
                /\ run[r].healthChecks.passed
                /\ metadata'.tableName = run[r].newTableName
      ]_vars

\* a sweep has dropped the snapshot older than 7 days and has left the
\* younger one, the legacy table and the backup table alone
C34_Witness ==
    \E r \in Runs :
        /\ run[r].pc = "returned"
        /\ OldTable \in Range(run[r].cleanedUpTables)
        /\ ~Exists(tables, OldTable)
        /\ Exists(tables, PrevTable)
        /\ Exists(tables, LegacyTable) /\ Exists(tables, BackupTable)
        /\ ParseTableTimestamp(PrevTable) >= run[r].cutoffDate

\* C35: cleanup failures are isolated per snapshot: when the sweep of a run
\* has ended, every expired snapshot of its listing has been sent a DROP
\* TABLE, also those that come after a drop that failed.
C35_Original ==
    \A r \in Runs :
        run[r].pc = "returned" =>
            \A n \in run[r].expired : Stmt("DROP TABLE", n) \in run[r].issued

-----------------------------------------------------------------------------
(* Claims on the stored raw value, checked under SpecRaw *)

\* the rows fed that the worker accepts, in order
AcceptedRawRows == SelectSeq(fed, LAMBDA cells : WorkerRowRecords(cells) # <<>>)

\* every cell of the row can be read from raw under its header column, and a
\* column without a cell reads as the empty string
Recoverable(raw, columns, cells) ==
    /\ Len(cells) <= Len(columns)
    /\ \A i \in DOMAIN columns :
         /\ columns[i] \in DOMAIN raw
         /\ raw[columns[i]] = IF i <= Len(cells) THEN cells[i] ELSE <<>>

\* a header without a repeated name and a row with no more cells than it
Regular(columns, cells) ==
    /\ Len(cells) <= Len(columns)
    /\ \A i, j \in DOMAIN columns : columns[i] = columns[j] => i = j

\* the raw of a regular row keeps every cell, also of the columns the
\* pipeline does not read, and the empty string for a missing trailing cell
RawKeepsRegularRows ==
    rpc = "done" =>
        /\ Len(Flatten(wk.writes)) = Len(AcceptedRawRows)
        /\ \A k \in DOMAIN AcceptedRawRows :
             Regular(hdr, AcceptedRawRows[k]) =>
                 Recoverable(Flatten(wk.writes)[k].raw, hdr, AcceptedRawRows[k])

\* C36: for every accepted row the stored raw preserves the whole row: every
\* cell can be recovered from raw under its header column, also for a row
\* with more cells than the header and under a header that repeats a name;
\* missing trailing cells appear as empty strings.
C36_Original ==
    rpc = "done" =>
        /\ Len(Flatten(wk.writes)) = Len(AcceptedRawRows)
        /\ \A k \in DOMAIN AcceptedRawRows :
             Recoverable(Flatten(wk.writes)[k].raw, hdr, AcceptedRawRows[k])

-----------------------------------------------------------------------------
(* Claims on updated_at, checked under SpecStamp *)

\* the updated_at values of the records written
WorkerStamps == {Flatten(wk.writes)[i].updatedAt : i \in DOMAIN Flatten(wk.writes)}
ScriptStamps == {Flatten(sc.out)[i].updatedAt : i \in DOMAIN Flatten(sc.out)}

\* the script: one value, that of its start
ScriptStampFixed == rpc = "done" => ScriptStamps \subseteq {sc.updatedAt}

\* C37: all records written by one run carry the same updated_at value, the
\* timestamp of the start of the run, however long the load takes.
C37_Original ==
    rpc = "done" => WorkerStamps \subseteq {0} /\ ScriptStamps \subseteq {0}

\* the records of one load carry two different values
C37_TwoStamps == rpc = "done" /\ Cardinality(WorkerStamps) > 1

-----------------------------------------------------------------------------
(* Claims on the quota counter under concurrent requests, checked under     *)
(* SpecRace                                                                  *)

ServedRacers == {i \in Racers : race.req[i].pc = "served"}

\* C38: the quota counter is a read-then-write without atomicity: the read
\* of a request changes nothing under the key, the write of a request that
\* passed the check stores the count it read plus one, whatever other
\* requests have stored in between, and a request is served exactly when the
\* count it read was below the limit.
C38_ReadThenWrite ==
    [][\A i \in Racers :
         /\ race.req[i].pc = "get" /\ race'.req[i].pc # "get" =>
                /\ race'.stored = race.stored
                /\ race'.req[i].current = race.stored
                /\ race'.req[i].pc = IF race.stored >= race.limit
                                     THEN "refused" ELSE "put"
         /\ race.req[i].pc = "put" /\ race'.req[i].pc # "put" =>
                /\ race'.req[i].pc = "served"
                /\ race'.stored = race.req[i].current + 1
      ]_vars

\* two requests arrived when exactly one request remained in the window;
\* both read the same count and both were served: more requests served in
\* the window than the limit, and a stored count below the number served
C38_Witness ==
    \E i, j \in Racers :
        /\ i # j
        /\ race.before = race.limit - 1
        /\ {i, j} = ServedRacers
        /\ race.req[i].current = race.before /\ race.req[j].current = race.before
        /\ race.before + Cardinality(ServedRacers) > race.limit
        /\ race.stored = race.limit
        /\ race.stored < race.before + Cardinality(ServedRacers)

-----------------------------------------------------------------------------
(* Claims on the response of fetchStatus beside a run, checked under SpecRead *)

\* C39: in every response fetchStatus builds, meta.datasetVersion, when it
\* is there, names the table the records of the response were read from,
\* also when a run activates a new snapshot between the reads of the lookup.
C39_Original ==
    lookup.pc = "returned" /\ lookup.datasetVersion # NoTable =>
        lookup.datasetVersion = lookup.tableName

-----------------------------------------------------------------------------
(* Claims on the pointer and the tables together, checked under Spec *)

\* the pointer holds the snapshot id that a run of this history wrote
WrittenByRun == \E r \in Runs : Promoted(r) /\ activeTable = run[r].newTableName

\* the same, while no run is between its pointer write and its return
PointerSettled ==
    WrittenByRun /\ \A r \in Runs : run[r].pc \in {"idle", "returned"}

\* C40: in every reachable state, if the pointer holds a snapshot id written
\* by a run, the table of that snapshot exists: no rollback and no retention
\* sweep of any run has dropped it.
C40_Original == WrittenByRun => Exists(tables, activeTable)

\* the pointer names a run's snapshot that is gone, after every run returned
C40_Dangling == PointerSettled /\ ~Exists(tables, activeTable)

====
